---------------------------- MODULE Spec2Model ----------------------------
(***************************************************************************)
(* The 6502 interpreter of the NES emulator (src/src/cpu.rs): the register *)
(* file, the status register, the stack, operand resolution, the           *)
(* instruction handlers and the fetch-decode-execute loop of               *)
(* CPU::run_with_callback.                                                 *)
(*                                                                         *)
(* A CPU value is a record c with the fields of struct CPU (a, x, y, p, s, *)
(* pc), the memory seen through the bus (mem) and three bookkeeping fields *)
(* (panicked, ret, stk).  Every handler of cpu.rs is an operator from CPU  *)
(* values to CPU values that performs the handler's assignments in the     *)
(* order of the code.  One action of the state machine is one iteration of *)
(* the loop of run_with_callback.                                          *)
(*                                                                         *)
(* The bus (bus.rs) and the opcode table (opcodes.rs) are not part of the  *)
(* sources at hand; they are modelled from the specification document.     *)
(***************************************************************************)
EXTENDS Integers, Sequences, FiniteSets, TLC

(***************************************************************************)
(* Machine arithmetic.                                                     *)
(***************************************************************************)
Byte == 0 .. 255
Word == 0 .. 65535

\* Bit i of v.
Bit(v, i) == (v \div (2 ^ i)) % 2

\* u8 & u8, u8 | u8, u8 ^ u8 (also used on u16 values below 2^16).
AndTable == [v \in 0 .. 255 |-> [w \in 0 .. 255 |->
    LET b(i) == (Bit(v, i) * Bit(w, i)) * (2 ^ i)
    IN  b(0) + b(1) + b(2) + b(3) + b(4) + b(5) + b(6) + b(7)]]
BitAnd(v, w) == AndTable[v][w]
XorTable == [v \in 0 .. 255 |-> [w \in 0 .. 255 |->
    LET b(i) == ((Bit(v, i) + Bit(w, i)) % 2) * (2 ^ i)
    IN  b(0) + b(1) + b(2) + b(3) + b(4) + b(5) + b(6) + b(7)]]
BitXor(v, w) == XorTable[v][w]

BitOr(v, w) == v + w - BitAnd(v, w)

\* u8::wrapping_add, u8::wrapping_sub; u16::wrapping_add.
wrapping_add_u8(v, w) == (v + w) % 256
wrapping_sub_u8(v, w) == (v - w + 256) % 256
wrapping_add_u16(v, w) == (v + w) % 65536

\* `x as i8` of a u8 and `x as u16` of an i8 (sign extension).
as_i8(v) == IF v >= 128 THEN v - 256 ELSE v
i8_as_u16(j) == (j + 65536) % 65536
i8_as_u8(j) == (j + 256) % 256

(***************************************************************************)
(* bitflags! CpuFlags (cpu.rs:8-19) and the stack constants.               *)
(***************************************************************************)
CARRY             == \h01
ZERO              == \h02
INTERRUPT_DISABLE == \h04
DECIMAL_MODE      == \h08
BREAK             == \h10
BREAK2            == \h20
OVERFLOW          == \h40
NEGATIV           == \h80

STACK       == \h0100
STACK_RESET == \hFD

\* CpuFlags::contains / insert / remove / set on the bits of P.
contains(p, f) == BitAnd(p, f) = f
insert(p, f)   == BitOr(p, f)
remove(p, f)   == BitAnd(p, 255 - f)
set(p, f, on)  == IF on THEN insert(p, f) ELSE remove(p, f)

(***************************************************************************)
(* The opcode table: <<code, mnemonic, bytes, cycles, mode>> for the 151   *)
(* documented instructions.                                                *)
(***************************************************************************)
CPU_OPS_CODES ==
    {
      <<\h00, "BRK", 1, 7, "NoneAddressing">>,
      <<\h01, "ORA", 2, 6, "Indirect_X">>,
      <<\h05, "ORA", 2, 3, "ZeroPage">>,
      <<\h06, "ASL", 2, 5, "ZeroPage">>,
      <<\h08, "PHP", 1, 3, "NoneAddressing">>,
      <<\h09, "ORA", 2, 2, "Immediate">>,
      <<\h0A, "ASL", 1, 2, "NoneAddressing">>,
      <<\h0D, "ORA", 3, 4, "Absolute">>,
      <<\h0E, "ASL", 3, 6, "Absolute">>,
      <<\h10, "BPL", 2, 2, "NoneAddressing">>,
      <<\h11, "ORA", 2, 5, "Indirect_Y">>,
      <<\h15, "ORA", 2, 4, "ZeroPage_X">>,
      <<\h16, "ASL", 2, 6, "ZeroPage_X">>,
      <<\h18, "CLC", 1, 2, "NoneAddressing">>,
      <<\h19, "ORA", 3, 4, "Absolute_Y">>,
      <<\h1D, "ORA", 3, 4, "Absolute_X">>,
      <<\h1E, "ASL", 3, 7, "Absolute_X">>,
      <<\h20, "JSR", 3, 6, "NoneAddressing">>,
      <<\h21, "AND", 2, 6, "Indirect_X">>,
      <<\h24, "BIT", 2, 3, "ZeroPage">>,
      <<\h25, "AND", 2, 3, "ZeroPage">>,
      <<\h26, "ROL", 2, 5, "ZeroPage">>,
      <<\h28, "PLP", 1, 4, "NoneAddressing">>,
      <<\h29, "AND", 2, 2, "Immediate">>,
      <<\h2A, "ROL", 1, 2, "NoneAddressing">>,
      <<\h2C, "BIT", 3, 4, "Absolute">>,
      <<\h2D, "AND", 3, 4, "Absolute">>,
      <<\h2E, "ROL", 3, 6, "Absolute">>,
      <<\h30, "BMI", 2, 2, "NoneAddressing">>,
      <<\h31, "AND", 2, 5, "Indirect_Y">>,
      <<\h35, "AND", 2, 4, "ZeroPage_X">>,
      <<\h36, "ROL", 2, 6, "ZeroPage_X">>,
      <<\h38, "SEC", 1, 2, "NoneAddressing">>,
      <<\h39, "AND", 3, 4, "Absolute_Y">>,
      <<\h3D, "AND", 3, 4, "Absolute_X">>,
      <<\h3E, "ROL", 3, 7, "Absolute_X">>,
      <<\h40, "RTI", 1, 6, "NoneAddressing">>,
      <<\h41, "EOR", 2, 6, "Indirect_X">>,
      <<\h45, "EOR", 2, 3, "ZeroPage">>,
      <<\h46, "LSR", 2, 5, "ZeroPage">>,
      <<\h48, "PHA", 1, 3, "NoneAddressing">>,
      <<\h49, "EOR", 2, 2, "Immediate">>,
      <<\h4A, "LSR", 1, 2, "NoneAddressing">>,
      <<\h4C, "JMP", 3, 3, "NoneAddressing">>,
      <<\h4D, "EOR", 3, 4, "Absolute">>,
      <<\h4E, "LSR", 3, 6, "Absolute">>,
      <<\h50, "BVC", 2, 2, "NoneAddressing">>,
      <<\h51, "EOR", 2, 5, "Indirect_Y">>,
      <<\h55, "EOR", 2, 4, "ZeroPage_X">>,
      <<\h56, "LSR", 2, 6, "ZeroPage_X">>,
      <<\h58, "CLI", 1, 2, "NoneAddressing">>,
      <<\h59, "EOR", 3, 4, "Absolute_Y">>,
      <<\h5D, "EOR", 3, 4, "Absolute_X">>,
      <<\h5E, "LSR", 3, 7, "Absolute_X">>,
      <<\h60, "RTS", 1, 6, "NoneAddressing">>,
      <<\h61, "ADC", 2, 6, "Indirect_X">>,
      <<\h65, "ADC", 2, 3, "ZeroPage">>,
      <<\h66, "ROR", 2, 5, "ZeroPage">>,
      <<\h68, "PLA", 1, 4, "NoneAddressing">>,
      <<\h69, "ADC", 2, 2, "Immediate">>,
      <<\h6A, "ROR", 1, 2, "NoneAddressing">>,
      <<\h6C, "JMP", 3, 5, "NoneAddressing">>,
      <<\h6D, "ADC", 3, 4, "Absolute">>,
      <<\h6E, "ROR", 3, 6, "Absolute">>,
      <<\h70, "BVS", 2, 2, "NoneAddressing">>,
      <<\h71, "ADC", 2, 5, "Indirect_Y">>,
      <<\h75, "ADC", 2, 4, "ZeroPage_X">>,
      <<\h76, "ROR", 2, 6, "ZeroPage_X">>,
      <<\h78, "SEI", 1, 2, "NoneAddressing">>,
      <<\h79, "ADC", 3, 4, "Absolute_Y">>,
      <<\h7D, "ADC", 3, 4, "Absolute_X">>,
      <<\h7E, "ROR", 3, 7, "Absolute_X">>,
      <<\h81, "STA", 2, 6, "Indirect_X">>,
      <<\h84, "STY", 2, 3, "ZeroPage">>,
      <<\h85, "STA", 2, 3, "ZeroPage">>,
      <<\h86, "STX", 2, 3, "ZeroPage">>,
      <<\h88, "DEY", 1, 2, "NoneAddressing">>,
      <<\h8A, "TXA", 1, 2, "NoneAddressing">>,
      <<\h8C, "STY", 3, 4, "Absolute">>,
      <<\h8D, "STA", 3, 4, "Absolute">>,
      <<\h8E, "STX", 3, 4, "Absolute">>,
      <<\h90, "BCC", 2, 2, "NoneAddressing">>,
      <<\h91, "STA", 2, 6, "Indirect_Y">>,
      <<\h94, "STY", 2, 4, "ZeroPage_X">>,
      <<\h95, "STA", 2, 4, "ZeroPage_X">>,
      <<\h96, "STX", 2, 4, "ZeroPage_Y">>,
      <<\h98, "TYA", 1, 2, "NoneAddressing">>,
      <<\h99, "STA", 3, 5, "Absolute_Y">>,
      <<\h9A, "TXS", 1, 2, "NoneAddressing">>,
      <<\h9D, "STA", 3, 5, "Absolute_X">>,
      <<\hA0, "LDY", 2, 2, "Immediate">>,
      <<\hA1, "LDA", 2, 6, "Indirect_X">>,
      <<\hA2, "LDX", 2, 2, "Immediate">>,
      <<\hA4, "LDY", 2, 3, "ZeroPage">>,
      <<\hA5, "LDA", 2, 3, "ZeroPage">>,
      <<\hA6, "LDX", 2, 3, "ZeroPage">>,
      <<\hA8, "TAY", 1, 2, "NoneAddressing">>,
      <<\hA9, "LDA", 2, 2, "Immediate">>,
      <<\hAA, "TAX", 1, 2, "NoneAddressing">>,
      <<\hAC, "LDY", 3, 4, "Absolute">>,
      <<\hAD, "LDA", 3, 4, "Absolute">>,
      <<\hAE, "LDX", 3, 4, "Absolute">>,
      <<\hB0, "BCS", 2, 2, "NoneAddressing">>,
      <<\hB1, "LDA", 2, 5, "Indirect_Y">>,
      <<\hB4, "LDY", 2, 4, "ZeroPage_X">>,
      <<\hB5, "LDA", 2, 4, "ZeroPage_X">>,
      <<\hB6, "LDX", 2, 4, "ZeroPage_Y">>,
      <<\hB8, "CLV", 1, 2, "NoneAddressing">>,
      <<\hB9, "LDA", 3, 4, "Absolute_Y">>,
      <<\hBA, "TSX", 1, 2, "NoneAddressing">>,
      <<\hBC, "LDY", 3, 4, "Absolute_X">>,
      <<\hBD, "LDA", 3, 4, "Absolute_X">>,
      <<\hBE, "LDX", 3, 4, "Absolute_Y">>,
      <<\hC0, "CPY", 2, 2, "Immediate">>,
      <<\hC1, "CMP", 2, 6, "Indirect_X">>,
      <<\hC4, "CPY", 2, 3, "ZeroPage">>,
      <<\hC5, "CMP", 2, 3, "ZeroPage">>,
      <<\hC6, "DEC", 2, 5, "ZeroPage">>,
      <<\hC8, "INY", 1, 2, "NoneAddressing">>,
      <<\hC9, "CMP", 2, 2, "Immediate">>,
      <<\hCA, "DEX", 1, 2, "NoneAddressing">>,
      <<\hCC, "CPY", 3, 4, "Absolute">>,
      <<\hCD, "CMP", 3, 4, "Absolute">>,
      <<\hCE, "DEC", 3, 6, "Absolute">>,
      <<\hD0, "BNE", 2, 2, "NoneAddressing">>,
      <<\hD1, "CMP", 2, 5, "Indirect_Y">>,
      <<\hD5, "CMP", 2, 4, "ZeroPage_X">>,
      <<\hD6, "DEC", 2, 6, "ZeroPage_X">>,
      <<\hD8, "CLD", 1, 2, "NoneAddressing">>,
      <<\hD9, "CMP", 3, 4, "Absolute_Y">>,
      <<\hDD, "CMP", 3, 4, "Absolute_X">>,
      <<\hDE, "DEC", 3, 7, "Absolute_X">>,
      <<\hE0, "CPX", 2, 2, "Immediate">>,
      <<\hE1, "SBC", 2, 6, "Indirect_X">>,
      <<\hE4, "CPX", 2, 3, "ZeroPage">>,
      <<\hE5, "SBC", 2, 3, "ZeroPage">>,
      <<\hE6, "INC", 2, 5, "ZeroPage">>,
      <<\hE8, "INX", 1, 2, "NoneAddressing">>,
      <<\hE9, "SBC", 2, 2, "Immediate">>,
      <<\hEA, "NOP", 1, 2, "NoneAddressing">>,
      <<\hEC, "CPX", 3, 4, "Absolute">>,
      <<\hED, "SBC", 3, 4, "Absolute">>,
      <<\hEE, "INC", 3, 6, "Absolute">>,
      <<\hF0, "BEQ", 2, 2, "NoneAddressing">>,
      <<\hF1, "SBC", 2, 5, "Indirect_Y">>,
      <<\hF5, "SBC", 2, 4, "ZeroPage_X">>,
      <<\hF6, "INC", 2, 6, "ZeroPage_X">>,
      <<\hF8, "SED", 1, 2, "NoneAddressing">>,
      <<\hF9, "SBC", 3, 4, "Absolute_Y">>,
      <<\hFD, "SBC", 3, 4, "Absolute_X">>,
      <<\hFE, "INC", 3, 7, "Absolute_X">>
    }

\* lazy_static OPCODES_MAP: code -> descriptor; find_opcode / HashMap::get.
OPCODES_MAP == [code \in { e[1] : e \in CPU_OPS_CODES } |-> CHOOSE e \in CPU_OPS_CODES : e[1] = code]
op_len(opcode)    == opcode[3]
op_cycles(opcode) == opcode[4]
op_mode(opcode)   == opcode[5]

(***************************************************************************)
(* State.                                                                  *)
(***************************************************************************)
VARIABLES
    register_a,       \* CPU.register_a
    register_x,       \* CPU.register_x
    register_y,       \* CPU.register_y
    register_p,       \* CPU.register_p (the bits of CpuFlags)
    program_counter,  \* CPU.program_counter
    stack_pointer,    \* CPU.stack_pointer
    memory,           \* the bytes behind CPU.bus: address -> non-zero byte
    bus_cycles,       \* CPU cycles the bus has been ticked by
    nmi_interrupt,    \* the bus's pending-NMI latch
    overflow_checks,  \* the build panics on integer overflow (debug profile)
    status,           \* "running" | "returned" | "panicked" | "reset"
    callbacks,        \* number of calls of the callback of run_with_callback
    fetched,          \* number of opcodes fetched by the loop
    cycles_due,       \* sum of the base cycle counts of the completed instructions
    step_limit,       \* number of iterations this run is followed for
    last              \* the iteration just performed: its opcode (code), the CPU
                      \* before it (cpu), the stack addresses it touched (stk),
                      \* how it ended (exit, arm_pc) and the same of the one before

cpu_vars == <<register_a, register_x, register_y, register_p,
              program_counter, stack_pointer, memory>>
vars == <<register_a, register_x, register_y, register_p, program_counter,
          stack_pointer, memory, bus_cycles, nmi_interrupt, overflow_checks,
          status, callbacks, fetched, cycles_due, step_limit, last>>

\* The outcome of an arithmetic overflow that panicked, and of the code after it.
PANIC == -1

\* The CPU as one value: self in cpu.rs.  ret holds the value a handler
\* returns, stk the addresses its stack operations touched.
Self ==
    [a |-> register_a, x |-> register_x, y |-> register_y, p |-> register_p,
     pc |-> program_counter, s |-> stack_pointer, mem |-> memory,
     panicked |-> FALSE, ret |-> 0, stk |-> <<>>]

Panic(c) == [c EXCEPT !.panicked = TRUE]

\* u16 + u16 as the build computes it: a panic with overflow checks, else wrapped.
add_u16(v, w) ==
    IF v + w > 65535
    THEN IF overflow_checks THEN PANIC ELSE (v + w) % 65536
    ELSE v + w

(***************************************************************************)
(* The bus's memory: 2 KiB of RAM mirrored through 0x0000-0x1FFF, byte     *)
(* storage elsewhere; unwritten bytes read 0.                              *)
(***************************************************************************)
RAM_MIRROR == \h0800
RAM_END    == \h1FFF

bus_index(addr) == IF addr <= RAM_END THEN addr % RAM_MIRROR ELSE addr

read_bytes(mem, addr) ==
    IF bus_index(addr) \in DOMAIN mem THEN mem[bus_index(addr)] ELSE 0

write_bytes(mem, addr, data) ==
    LET i == bus_index(addr)
        keys == IF data = 0 THEN DOMAIN mem \ {i} ELSE DOMAIN mem \cup {i}
    IN  [k \in keys |-> IF k = i THEN data ELSE mem[k]]

\* impl Mem for CPU: mem_read / mem_write.
mem_read(c, addr) == read_bytes(c.mem, addr)

mem_write(c, addr, data) == [c EXCEPT !.mem = write_bytes(c.mem, addr, data)]

\* Mem::mem_read_u16: the word at pos, or PANIC when pos + 1 panics.
mem_read_u16(c, pos) ==
    LET lo == mem_read(c, pos)
        next == add_u16(pos, 1)
    IN  IF next = PANIC THEN PANIC
        ELSE (mem_read(c, next) * 256) + lo

(***************************************************************************)
(* The stack.                                                              *)
(***************************************************************************)
\* Mutant of stack_pop: the stack pointer incremented without wrapping.
stack_pop_no_wrap(c) ==
    LET sp == c.s + 1
    IN  [c EXCEPT !.s = sp,
                  !.ret = mem_read(c, STACK + sp),
                  !.stk = Append(c.stk, STACK + sp)]

stack_pop(c) ==
    LET sp == wrapping_add_u8(c.s, 1)
    IN  [c EXCEPT !.s = sp,
                  !.ret = mem_read(c, STACK + sp),
                  !.stk = Append(c.stk, STACK + sp)]

stack_push(c, data) ==
    [mem_write(c, STACK + c.s, data)
        EXCEPT !.s = wrapping_sub_u8(c.s, 1),
               !.stk = Append(c.stk, STACK + c.s)]

stack_push_u16(c, data) ==
    LET hi == data \div 256
        lo == data % 256
    IN  stack_push(stack_push(c, hi), lo)

stack_pop_u16(c) ==
    LET c1 == stack_pop(c)
        lo == c1.ret
        c2 == stack_pop(c1)
        hi == c2.ret
    IN  [c2 EXCEPT !.ret = (hi * 256) + lo]

(***************************************************************************)
(* Flags helpers.                                                          *)
(***************************************************************************)
set_carry_flag(c)   == [c EXCEPT !.p = insert(c.p, CARRY)]
clear_carry_flag(c) == [c EXCEPT !.p = remove(c.p, CARRY)]

\* Mutant of update_zero_and_negative_flags: Negative tested with > 0x80.
update_zero_and_negative_flags_gt(c, result) ==
    LET p1 == IF result = 0 THEN insert(c.p, ZERO) ELSE remove(c.p, ZERO)
        p2 == IF result > 128
              THEN insert(p1, NEGATIV) ELSE remove(p1, NEGATIV)
    IN  [c EXCEPT !.p = p2]

update_zero_and_negative_flags(c, result) ==
    LET p1 == IF result = 0 THEN insert(c.p, ZERO) ELSE remove(c.p, ZERO)
        p2 == IF BitAnd(result, 128) # 0
              THEN insert(p1, NEGATIV) ELSE remove(p1, NEGATIV)
    IN  [c EXCEPT !.p = p2]

set_register_a(c, val) ==
    update_zero_and_negative_flags([c EXCEPT !.a = val], val)

\* Mutant of add_to_register_a: Overflow from (data ^ a) & (result ^ a).
add_to_register_a_wrong_overflow(c, data) ==
    LET sum == c.a + data + (IF contains(c.p, CARRY) THEN 1 ELSE 0)
        carry == sum > 255
        c1 == IF carry THEN set_carry_flag(c) ELSE clear_carry_flag(c)
        result == sum % 256
        c2 == IF BitAnd(BitAnd(BitXor(data, c.a), BitXor(result, c.a)), 128) # 0
              THEN [c1 EXCEPT !.p = insert(c1.p, OVERFLOW)]
              ELSE [c1 EXCEPT !.p = remove(c1.p, OVERFLOW)]
    IN  set_register_a(c2, result)

add_to_register_a(c, data) ==
    LET sum == c.a + data + (IF contains(c.p, CARRY) THEN 1 ELSE 0)
        carry == sum > 255
        c1 == IF carry THEN set_carry_flag(c) ELSE clear_carry_flag(c)
        result == sum % 256
        c2 == IF BitAnd(BitAnd(BitXor(data, result), BitXor(result, c.a)), 128) # 0
              THEN [c1 EXCEPT !.p = insert(c1.p, OVERFLOW)]
              ELSE [c1 EXCEPT !.p = remove(c1.p, OVERFLOW)]
    IN  set_register_a(c2, result)

(***************************************************************************)
(* Operand resolution: the address, or PANIC.                              *)
(***************************************************************************)
\* Mutant of get_operand_address: the high byte of the pointer of the
\* indirect modes is read at the pointer plus 1 without wrapping.
get_operand_address_leaves_page(c, mode) ==
    CASE mode = "Immediate"  -> c.pc
      [] mode = "ZeroPage"   -> mem_read(c, c.pc)
      [] mode = "Absolute"   -> mem_read_u16(c, c.pc)
      [] mode = "ZeroPage_X" -> wrapping_add_u8(mem_read(c, c.pc), c.x)
      [] mode = "ZeroPage_Y" -> wrapping_add_u8(mem_read(c, c.pc), c.y)
      [] mode = "Absolute_X" ->
            LET base == mem_read_u16(c, c.pc)
            IN  IF base = PANIC THEN PANIC ELSE wrapping_add_u16(base, c.x)
      [] mode = "Absolute_Y" ->
            LET base == mem_read_u16(c, c.pc)
            IN  IF base = PANIC THEN PANIC ELSE wrapping_add_u16(base, c.y)
      [] mode = "Indirect_X" ->
            LET base == mem_read(c, c.pc)
                ptr == wrapping_add_u8(base, c.x)
                lo == mem_read(c, ptr)
                hi == mem_read(c, ptr + 1)
            IN  (hi * 256) + lo
      [] mode = "Indirect_Y" ->
            LET base == mem_read(c, c.pc)
                lo == mem_read(c, base)
                hi == mem_read(c, base + 1)
                deref_base == (hi * 256) + lo
            IN  wrapping_add_u16(deref_base, c.y)
      [] mode = "NoneAddressing" -> PANIC

get_operand_address(c, mode) ==
    CASE mode = "Immediate"  -> c.pc
      [] mode = "ZeroPage"   -> mem_read(c, c.pc)
      [] mode = "Absolute"   -> mem_read_u16(c, c.pc)
      [] mode = "ZeroPage_X" -> wrapping_add_u8(mem_read(c, c.pc), c.x)
      [] mode = "ZeroPage_Y" -> wrapping_add_u8(mem_read(c, c.pc), c.y)
      [] mode = "Absolute_X" ->
            LET base == mem_read_u16(c, c.pc)
            IN  IF base = PANIC THEN PANIC ELSE wrapping_add_u16(base, c.x)
      [] mode = "Absolute_Y" ->
            LET base == mem_read_u16(c, c.pc)
            IN  IF base = PANIC THEN PANIC ELSE wrapping_add_u16(base, c.y)
      [] mode = "Indirect_X" ->
            LET base == mem_read(c, c.pc)
                ptr == wrapping_add_u8(base, c.x)
                lo == mem_read(c, ptr)
                hi == mem_read(c, wrapping_add_u8(ptr, 1))
            IN  (hi * 256) + lo
      [] mode = "Indirect_Y" ->
            LET base == mem_read(c, c.pc)
                lo == mem_read(c, base)
                hi == mem_read(c, wrapping_add_u8(base, 1))
                deref_base == (hi * 256) + lo
            IN  wrapping_add_u16(deref_base, c.y)
      [] mode = "NoneAddressing" -> PANIC

(***************************************************************************)
(* The instruction handlers, in the order of cpu.rs.  A handler whose      *)
(* operand address cannot be computed (PANIC) leaves the CPU panicked.     *)
(***************************************************************************)
tax(c) == update_zero_and_negative_flags([c EXCEPT !.x = c.a], c.a)
tay(c) == update_zero_and_negative_flags([c EXCEPT !.y = c.a], c.a)
txa(c) == update_zero_and_negative_flags([c EXCEPT !.a = c.x], c.x)
tya(c) == update_zero_and_negative_flags([c EXCEPT !.a = c.y], c.y)
tsx(c) == update_zero_and_negative_flags([c EXCEPT !.x = c.s], c.s)
txs(c) == [c EXCEPT !.s = c.x]

inc(c, mode) ==
    LET addr == get_operand_address(c, mode) IN
    IF addr = PANIC THEN Panic(c)
    ELSE LET val == wrapping_add_u8(mem_read(c, addr), 1)
         IN  update_zero_and_negative_flags(mem_write(c, addr, val), val)

\* Mutant of adc: with Decimal set the operand is adjusted by 6.
adc_decimal_adjusted(c, mode) ==
    LET addr == get_operand_address(c, mode) IN
    IF addr = PANIC THEN Panic(c)
    ELSE IF contains(c.p, DECIMAL_MODE)
         THEN add_to_register_a(c, wrapping_add_u8(mem_read(c, addr), 6))
         ELSE add_to_register_a(c, mem_read(c, addr))

adc(c, mode) ==
    LET addr == get_operand_address(c, mode) IN
    IF addr = PANIC THEN Panic(c)
    ELSE add_to_register_a(c, mem_read(c, addr))

and(c, mode) ==
    LET addr == get_operand_address(c, mode) IN
    IF addr = PANIC THEN Panic(c)
    ELSE set_register_a(c, BitAnd(mem_read(c, addr), c.a))

asl_register_a(c) ==
    LET c1 == IF c.a \div 128 = 1 THEN set_carry_flag(c) ELSE clear_carry_flag(c)
    IN  set_register_a(c1, (c.a * 2) % 256)

asl(c, mode) ==
    LET addr == get_operand_address(c, mode) IN
    IF addr = PANIC THEN Panic(c)
    ELSE LET val == mem_read(c, addr)
             c1 == IF val \div 128 = 1 THEN set_carry_flag(c) ELSE clear_carry_flag(c)
             res == (val * 2) % 256
         IN  update_zero_and_negative_flags(mem_write(c1, addr, res), res)

bit(c, mode) ==
    LET addr == get_operand_address(c, mode) IN
    IF addr = PANIC THEN Panic(c)
    ELSE LET val == mem_read(c, addr)
             p1 == IF BitAnd(c.a, val) = 0 THEN insert(c.p, ZERO) ELSE remove(c.p, ZERO)
             p2 == set(p1, NEGATIV, BitAnd(val, 128) > 0)
             p3 == set(p2, OVERFLOW, BitAnd(val, 64) > 0)
         IN  [c EXCEPT !.p = p3]

dec(c, mode) ==
    LET addr == get_operand_address(c, mode) IN
    IF addr = PANIC THEN Panic(c)
    ELSE LET result == wrapping_sub_u8(mem_read(c, addr), 1)
         IN  update_zero_and_negative_flags(mem_write(c, addr, result), result)

eor(c, mode) ==
    LET addr == get_operand_address(c, mode) IN
    IF addr = PANIC THEN Panic(c)
    ELSE LET res == BitXor(c.a, mem_read(c, addr))
         IN  update_zero_and_negative_flags([c EXCEPT !.a = res], res)

lsr_register_a(c) ==
    LET c1 == IF c.a % 2 = 1 THEN set_carry_flag(c) ELSE clear_carry_flag(c)
    IN  set_register_a(c1, c.a \div 2)

\* The memory variant sets Carry on bit 0 and has no else branch.
lsr(c, mode) ==
    LET addr == get_operand_address(c, mode) IN
    IF addr = PANIC THEN Panic(c)
    ELSE LET var == mem_read(c, addr)
             c1 == IF var % 2 = 1 THEN set_carry_flag(c) ELSE c
             res == var \div 2
         IN  update_zero_and_negative_flags(mem_write(c1, addr, res), res)

ora(c, mode) ==
    LET addr == get_operand_address(c, mode) IN
    IF addr = PANIC THEN Panic(c)
    ELSE set_register_a(c, BitOr(mem_read(c, addr), c.a))

pha(c) == stack_push(c, c.a)

php(c) == stack_push(c, insert(insert(c.p, BREAK), BREAK2))

pla(c) == LET c1 == stack_pop(c) IN set_register_a(c1, c1.ret)

\* Mutant of plp: Break2 is set, as RTI sets it.
plp_sets_break2(c) ==
    LET c1 == stack_pop(c)
    IN  [c1 EXCEPT !.p = insert(remove(c1.ret, BREAK), BREAK2)]

plp(c) ==
    LET c1 == stack_pop(c)
    IN  [c1 EXCEPT !.p = remove(remove(c1.ret, BREAK), BREAK2)]

rol_register_a(c) ==
    LET old_carry == contains(c.p, CARRY)
        c1 == IF c.a \div 128 = 1 THEN set_carry_flag(c) ELSE clear_carry_flag(c)
        shifted == (c.a * 2) % 256
        res == IF old_carry THEN BitOr(shifted, 1) ELSE shifted
    IN  update_zero_and_negative_flags([c1 EXCEPT !.a = res], res)

rol(c, mode) ==
    LET addr == get_operand_address(c, mode) IN
    IF addr = PANIC THEN Panic(c)
    ELSE LET var == mem_read(c, addr)
             old_carry == contains(c.p, CARRY)
             c1 == IF var \div 128 = 1 THEN set_carry_flag(c) ELSE clear_carry_flag(c)
             shifted == (var * 2) % 256
             res == IF old_carry THEN BitOr(shifted, 1) ELSE shifted
         IN  update_zero_and_negative_flags(mem_write(c1, addr, res), res)

ror(c, mode) ==
    LET addr == get_operand_address(c, mode) IN
    IF addr = PANIC THEN Panic(c)
    ELSE LET var == mem_read(c, addr)
             old_carry == contains(c.p, CARRY)
             c1 == IF var % 2 = 1 THEN set_carry_flag(c) ELSE clear_carry_flag(c)
             shifted == var \div 2
             res == IF old_carry THEN BitOr(shifted, 128) ELSE shifted
         IN  update_zero_and_negative_flags(mem_write(c1, addr, res), res)

\* Mutant of ror_register_a: the old Carry is not rotated into bit 7.
ror_register_a_drops_carry(c) ==
    LET c1 == IF c.a % 2 = 1 THEN set_carry_flag(c) ELSE clear_carry_flag(c)
        res == c.a \div 2
    IN  update_zero_and_negative_flags([c1 EXCEPT !.a = res], res)

ror_register_a(c) ==
    LET old_carry == contains(c.p, CARRY)
        c1 == IF c.a % 2 = 1 THEN set_carry_flag(c) ELSE clear_carry_flag(c)
        shifted == c.a \div 2
        res == IF old_carry THEN BitOr(shifted, 128) ELSE shifted
    IN  update_zero_and_negative_flags([c1 EXCEPT !.a = res], res)

\* Mutant of sbc: the operand is negated and 1 is not subtracted.
sbc_negates(c, mode) ==
    LET addr == get_operand_address(c, mode) IN
    IF addr = PANIC THEN Panic(c)
    ELSE add_to_register_a(c, i8_as_u8(0 - as_i8(mem_read(c, addr))))

sbc(c, mode) ==
    LET addr == get_operand_address(c, mode) IN
    IF addr = PANIC THEN Panic(c)
    ELSE LET var == mem_read(c, addr)
             neg == as_i8(i8_as_u8(0 - as_i8(var)))       \* (var as i8).wrapping_neg()
             sub == as_i8(i8_as_u8(neg - 1))              \* .wrapping_sub(1)
         IN  add_to_register_a(c, i8_as_u8(sub))

sta(c, mode) ==
    LET addr == get_operand_address(c, mode) IN
    IF addr = PANIC THEN Panic(c) ELSE mem_write(c, addr, c.a)

stx(c, mode) ==
    LET addr == get_operand_address(c, mode) IN
    IF addr = PANIC THEN Panic(c) ELSE mem_write(c, addr, c.x)

sty(c, mode) ==
    LET addr == get_operand_address(c, mode) IN
    IF addr = PANIC THEN Panic(c) ELSE mem_write(c, addr, c.y)

\* Mutant of inx: the increment saturates.
inx_saturating(c) ==
    LET v == IF c.x = 255 THEN 255 ELSE c.x + 1
    IN  update_zero_and_negative_flags([c EXCEPT !.x = v], v)

inx(c) ==
    LET v == wrapping_add_u8(c.x, 1)
    IN  update_zero_and_negative_flags([c EXCEPT !.x = v], v)

iny(c) ==
    LET v == wrapping_add_u8(c.y, 1)
    IN  update_zero_and_negative_flags([c EXCEPT !.y = v], v)

dex(c) ==
    LET v == wrapping_sub_u8(c.x, 1)
    IN  update_zero_and_negative_flags([c EXCEPT !.x = v], v)

dey(c) ==
    LET v == wrapping_sub_u8(c.y, 1)
    IN  update_zero_and_negative_flags([c EXCEPT !.y = v], v)

\* Mutant of compare: Carry only when the register is greater.
compare_strict(c, mode, compare_with) ==
    LET addr == get_operand_address(c, mode) IN
    IF addr = PANIC THEN Panic(c)
    ELSE LET val == mem_read(c, addr)
             c1 == IF compare_with > val
                   THEN [c EXCEPT !.p = insert(c.p, CARRY)]
                   ELSE [c EXCEPT !.p = remove(c.p, CARRY)]
         IN  update_zero_and_negative_flags(c1, wrapping_sub_u8(compare_with, val))

compare(c, mode, compare_with) ==
    LET addr == get_operand_address(c, mode) IN
    IF addr = PANIC THEN Panic(c)
    ELSE LET val == mem_read(c, addr)
             c1 == IF compare_with >= val
                   THEN [c EXCEPT !.p = insert(c.p, CARRY)]
                   ELSE [c EXCEPT !.p = remove(c.p, CARRY)]
         IN  update_zero_and_negative_flags(c1, wrapping_sub_u8(compare_with, val))

lda(c, mode) ==
    LET addr == get_operand_address(c, mode) IN
    IF addr = PANIC THEN Panic(c)
    ELSE set_register_a(c, mem_read(c, addr))

ldx(c, mode) ==
    LET addr == get_operand_address(c, mode) IN
    IF addr = PANIC THEN Panic(c)
    ELSE LET var == mem_read(c, addr)
         IN  update_zero_and_negative_flags([c EXCEPT !.x = var], var)

ldy(c, mode) ==
    LET addr == get_operand_address(c, mode) IN
    IF addr = PANIC THEN Panic(c)
    ELSE LET var == mem_read(c, addr)
         IN  update_zero_and_negative_flags([c EXCEPT !.y = var], var)

branch(c, condition) ==
    IF condition
    THEN LET jump == as_i8(mem_read(c, c.pc))
             jump_addr == wrapping_add_u16(wrapping_add_u16(c.pc, 1), i8_as_u16(jump))
         IN  [c EXCEPT !.pc = jump_addr]
    ELSE c

(***************************************************************************)
(* The arms of the match of run_with_callback that are written in place.   *)
(***************************************************************************)
jmp_absolute(c) ==
    LET mem_address == mem_read_u16(c, c.pc) IN
    IF mem_address = PANIC THEN Panic(c) ELSE [c EXCEPT !.pc = mem_address]

jmp_indirect(c) ==
    LET mem_address == mem_read_u16(c, c.pc) IN
    IF mem_address = PANIC THEN Panic(c)
    ELSE LET indirect_ref ==
                 IF mem_address % 256 = 255
                 THEN LET lo == mem_read(c, mem_address)
                          hi == mem_read(c, mem_address - (mem_address % 256))
                      IN  (hi * 256) + lo
                 ELSE mem_read_u16(c, mem_address)
         IN  IF indirect_ref = PANIC THEN Panic(c) ELSE [c EXCEPT !.pc = indirect_ref]

jsr(c) ==
    LET plus2 == add_u16(c.pc, 2) IN
    IF plus2 = PANIC THEN Panic(c)
    ELSE LET c1 == stack_push_u16(c, (plus2 - 1) % 65536)
             target_address == mem_read_u16(c1, c1.pc)
         IN  IF target_address = PANIC THEN Panic(c1)
             ELSE [c1 EXCEPT !.pc = target_address]

rts(c) ==
    LET c1 == stack_pop_u16(c)
        target == add_u16(c1.ret, 1)
    IN  IF target = PANIC THEN Panic(c1) ELSE [c1 EXCEPT !.pc = target]

\* Mutant of rti: the popped word is adjusted by 1, as RTS adjusts it.
rti_adjusts(c) ==
    LET c1 == stack_pop(c)
        c2 == [c1 EXCEPT !.p = insert(remove(c1.ret, BREAK), BREAK2)]
        c3 == stack_pop_u16(c2)
    IN  [c3 EXCEPT !.pc = (c3.ret + 1) % 65536]

\* Mutant of rti: Break is left as popped.
rti_keeps_break(c) ==
    LET c1 == stack_pop(c)
        c2 == [c1 EXCEPT !.p = insert(c1.ret, BREAK2)]
        c3 == stack_pop_u16(c2)
    IN  [c3 EXCEPT !.pc = c3.ret]

rti(c) ==
    LET c1 == stack_pop(c)
        c2 == [c1 EXCEPT !.p = insert(remove(c1.ret, BREAK), BREAK2)]
        c3 == stack_pop_u16(c2)
    IN  [c3 EXCEPT !.pc = c3.ret]

(***************************************************************************)
(* run_with_callback: the match on the opcode byte.  The 0x00 arm returns  *)
(* from the function and is handled by loop_body.                          *)
(***************************************************************************)
dispatch(c, code, opcode) ==
    LET mode == op_mode(opcode) IN
    CASE code \in {\hA9, \hA5, \hB5, \hAD, \hBD, \hB9, \hA1, \hB1} -> lda(c, mode)
      [] code = \hD8 -> [c EXCEPT !.p = remove(c.p, DECIMAL_MODE)]
      [] code = \h58 -> [c EXCEPT !.p = remove(c.p, INTERRUPT_DISABLE)]
      [] code = \hB8 -> [c EXCEPT !.p = remove(c.p, OVERFLOW)]
      [] code = \h18 -> clear_carry_flag(c)
      [] code = \h38 -> set_carry_flag(c)
      [] code = \h78 -> [c EXCEPT !.p = insert(c.p, INTERRUPT_DISABLE)]
      [] code = \hF8 -> [c EXCEPT !.p = insert(c.p, DECIMAL_MODE)]
      [] code = \h48 -> pha(c)
      [] code = \h68 -> pla(c)
      [] code = \h08 -> php(c)
      [] code = \h28 -> plp(c)
      [] code \in {\h69, \h65, \h75, \h6D, \h7D, \h79, \h61, \h71} -> adc(c, mode)
      [] code \in {\hE9, \hE5, \hF5, \hED, \hFD, \hF9, \hE1, \hF1} -> sbc(c, mode)
      [] code \in {\h29, \h25, \h35, \h2D, \h3D, \h39, \h21, \h31} -> and(c, mode)
      [] code \in {\h49, \h45, \h55, \h4D, \h5D, \h59, \h41, \h51} -> eor(c, mode)
      [] code \in {\h09, \h05, \h15, \h0D, \h1D, \h19, \h01, \h11} -> ora(c, mode)
      [] code = \h4A -> lsr_register_a(c)
      [] code \in {\h46, \h56, \h4E, \h5E} -> lsr(c, mode)
      [] code = \h0A -> asl_register_a(c)
      [] code \in {\h06, \h16, \h0E, \h1E} -> asl(c, mode)
      [] code = \h2A -> rol_register_a(c)
      [] code \in {\h26, \h36, \h2E, \h3E} -> rol(c, mode)
      [] code = \h6A -> ror_register_a(c)
      [] code \in {\h66, \h76, \h6E, \h7E} -> ror(c, mode)
      [] code \in {\hE6, \hF6, \hEE, \hFE} -> inc(c, mode)
      [] code = \hE8 -> inx(c)
      [] code = \hC8 -> iny(c)
      [] code \in {\hC6, \hD6, \hCE, \hDE} -> dec(c, mode)
      [] code = \hCA -> dex(c)
      [] code = \h88 -> dey(c)
      [] code \in {\hC9, \hC5, \hD5, \hCD, \hDD, \hD9, \hC1, \hD1} -> compare(c, mode, c.a)
      [] code \in {\hC0, \hC4, \hCC} -> compare(c, mode, c.y)
      [] code \in {\hE0, \hE4, \hEC} -> compare(c, mode, c.x)
      [] code = \h4C -> jmp_absolute(c)
      [] code = \h6C -> jmp_indirect(c)
      [] code = \h20 -> jsr(c)
      [] code = \h60 -> rts(c)
      [] code = \h40 -> rti(c)
      [] code = \hD0 -> branch(c, ~contains(c.p, ZERO))
      [] code = \h70 -> branch(c, contains(c.p, OVERFLOW))
      [] code = \h50 -> branch(c, ~contains(c.p, OVERFLOW))
      [] code = \h10 -> branch(c, ~contains(c.p, NEGATIV))
      [] code = \h30 -> branch(c, contains(c.p, NEGATIV))
      [] code = \hF0 -> branch(c, contains(c.p, ZERO))
      [] code = \hB0 -> branch(c, contains(c.p, CARRY))
      [] code = \h90 -> branch(c, ~contains(c.p, CARRY))
      [] code \in {\h24, \h2C} -> bit(c, mode)
      [] code \in {\h85, \h95, \h8D, \h9D, \h99, \h81, \h91} -> sta(c, mode)
      [] code \in {\h86, \h96, \h8E} -> stx(c, mode)
      [] code \in {\h84, \h94, \h8C} -> sty(c, mode)
      [] code \in {\hA2, \hA6, \hB6, \hAE, \hBE} -> ldx(c, mode)
      [] code \in {\hA0, \hA4, \hB4, \hAC, \hBC} -> ldy(c, mode)
      [] code = \hEA -> c
      [] code = \hAA -> tax(c)
      [] code = \hA8 -> tay(c)
      [] code = \hBA -> tsx(c)
      [] code = \h8A -> txa(c)
      [] code = \h9A -> txs(c)
      [] code = \h98 -> tya(c)
      [] OTHER -> Panic(c)                                   \* todo!()

\* Mutant of advance: the program counter advances by the whole length.
advance_full_length(c, prev_program_counter, opcode) ==
    IF prev_program_counter = c.pc
    THEN LET next == add_u16(c.pc, op_len(opcode))
         IN  IF next = PANIC THEN Panic(c) ELSE [c EXCEPT !.pc = next]
    ELSE c

\* The test after the match: advance over the operand bytes when the
\* handler left the program counter where the fetch put it.
advance(c, prev_program_counter, opcode) ==
    IF prev_program_counter = c.pc
    THEN LET next == add_u16(c.pc, op_len(opcode) - 1)
         IN  IF next = PANIC THEN Panic(c) ELSE [c EXCEPT !.pc = next]
    ELSE c

\* One iteration of the loop: the CPU it leaves (cpu), how it ends (exit):
\* "callback" (the callback is called and the loop goes on), "return"
\* (the function returns) or "panic", and the program counter as the arm
\* of the match left it (arm_pc).  after_advance, after_dispatch, decode
\* and fetch are the stages of the iteration, last to first.
after_advance(c3, arm_pc) ==
    [cpu |-> c3, exit |-> IF c3.panicked THEN "panic" ELSE "callback",
     arm_pc |-> arm_pc]

after_dispatch(c2, prev_program_counter, opcode) ==
    IF c2.panicked THEN [cpu |-> c2, exit |-> "panic", arm_pc |-> c2.pc]
    ELSE after_advance(advance(c2, prev_program_counter, opcode), c2.pc)

\* Mutant of decode: the 0x00 arm pushes the status register before it returns.
decode_brk_pushes(c1, code) ==
    IF code \notin DOMAIN OPCODES_MAP
    THEN [cpu |-> Panic(c1), exit |-> "panic", arm_pc |-> c1.pc]
    ELSE IF code = \h00 THEN [cpu |-> php(c1), exit |-> "return", arm_pc |-> c1.pc]
    ELSE after_dispatch(dispatch(c1, code, OPCODES_MAP[code]), c1.pc, OPCODES_MAP[code])

\* Mutant of decode: an opcode byte without a table entry aborts after X
\* was incremented.
decode_unknown_after_effect(c1, code) ==
    IF code \notin DOMAIN OPCODES_MAP
    THEN [cpu |-> Panic(inx(c1)), exit |-> "panic", arm_pc |-> c1.pc]
    ELSE IF code = \h00 THEN [cpu |-> c1, exit |-> "return", arm_pc |-> c1.pc]
    ELSE after_dispatch(dispatch(c1, code, OPCODES_MAP[code]), c1.pc, OPCODES_MAP[code])

decode(c1, code) ==
    IF code \notin DOMAIN OPCODES_MAP
    THEN [cpu |-> Panic(c1), exit |-> "panic", arm_pc |-> c1.pc]   \* expect(...)
    ELSE IF code = \h00 THEN [cpu |-> c1, exit |-> "return", arm_pc |-> c1.pc]
    ELSE after_dispatch(dispatch(c1, code, OPCODES_MAP[code]), c1.pc, OPCODES_MAP[code])

fetch(c, code, next) ==
    IF next = PANIC THEN [cpu |-> Panic(c), exit |-> "panic", arm_pc |-> c.pc]
    ELSE decode([c EXCEPT !.pc = next], code)

loop_body(c) == fetch(c, mem_read(c, c.pc), add_u16(c.pc, 1))

\* Mutant of callback_calls: the callback is also called for the BRK.
callback_calls_after_brk(exit) == IF exit = "panic" THEN 0 ELSE 1

\* Calls of the callback made by an iteration that ends with `exit`.
callback_calls(exit) == IF exit = "callback" THEN 1 ELSE 0

(***************************************************************************)
(* The state machine: one action per way an iteration of the loop of       *)
(* run_with_callback ends.                                                 *)
(***************************************************************************)
\* Iterations explored per run, and per run of the long straight-line
\* programs.
MaxSteps == 3
MaxRun == 256

\* The opcode recorded when no instruction was fetched yet.
NO_CODE == 256

\* Writes the CPU value c back to the registers and the memory.
Store(c) ==
    /\ register_a' = c.a
    /\ register_x' = c.x
    /\ register_y' = c.y
    /\ register_p' = c.p
    /\ program_counter' = c.pc
    /\ stack_pointer' = c.s
    /\ memory' = c.mem

Iterate(r) ==
    LET code == mem_read(Self, program_counter)
        done == r.exit = "callback"
    IN  /\ Store(r.cpu)
        /\ callbacks' = callbacks + callback_calls(r.exit)
        /\ fetched' = fetched + 1
        /\ cycles_due' = cycles_due + (IF done THEN op_cycles(OPCODES_MAP[code]) ELSE 0)
        /\ last' = [valid |-> TRUE, code |-> code, cpu |-> Self,
                    stk |-> r.cpu.stk, exit |-> r.exit, arm_pc |-> r.arm_pc,
                    prev_code |-> IF last.valid THEN last.code ELSE NO_CODE,
                    prev_cpu |-> last.cpu]
        \* The loop holds no call of the bus: neither tick nor poll_nmi_status.
        /\ UNCHANGED <<bus_cycles, nmi_interrupt, overflow_checks, step_limit>>

\* An iteration that executes an instruction and calls the callback, or panics.
run_iteration ==
    /\ status = "running"
    /\ fetched < step_limit
    /\ \E r \in {loop_body(Self)} :
           /\ r.exit # "return"
           /\ status' = IF r.exit = "panic" THEN "panicked" ELSE "running"
           /\ Iterate(r)

\* The iteration that fetches 0x00: run_with_callback returns.
run_return ==
    /\ status = "running"
    /\ fetched < step_limit
    /\ \E r \in {loop_body(Self)} :
           /\ r.exit = "return"
           /\ status' = "returned"
           /\ Iterate(r)

\* Mutant of reset: the status register is left as it is.
reset_keeps_status(c) ==
    LET c1 == [c EXCEPT !.a = 0, !.x = 0, !.y = 0, !.s = STACK_RESET]
        vector == mem_read_u16(c1, \hFFFC)
    IN  IF vector = PANIC THEN Panic(c1) ELSE [c1 EXCEPT !.pc = vector]

\* CPU::reset.
reset(c) ==
    LET c1 == [c EXCEPT !.a = 0, !.x = 0, !.y = 0, !.s = STACK_RESET, !.p = \h24]
        vector == mem_read_u16(c1, \hFFFC)
    IN  IF vector = PANIC THEN Panic(c1) ELSE [c1 EXCEPT !.pc = vector]

\* The host calls reset on the CPU a run has returned from (main.rs and
\* load_and_run call it before a run); the CPU is followed no further.
reset_after_run ==
    /\ status = "returned"
    /\ \E c \in {reset(Self)} :
           /\ Store(c)
           /\ status' = IF c.panicked THEN "panicked" ELSE "reset"
           /\ last' = [valid |-> TRUE, code |-> NO_CODE, cpu |-> Self,
                       stk |-> c.stk, exit |-> "reset", arm_pc |-> c.pc,
                       prev_code |-> last.code, prev_cpu |-> last.cpu]
    /\ UNCHANGED <<bus_cycles, nmi_interrupt, overflow_checks, step_limit,
                   callbacks, fetched, cycles_due>>

Next == run_iteration \/ run_return \/ reset_after_run

(***************************************************************************)
(* Initial states: the CPU at the entry of run_with_callback, as the host  *)
(* (main.rs, the tests) prepared it through the public fields and the bus. *)
(***************************************************************************)
NoLast ==
    [valid |-> FALSE, code |-> NO_CODE, cpu |-> Self, stk |-> <<>>, exit |-> "none",
     arm_pc |-> program_counter, prev_code |-> NO_CODE, prev_cpu |-> Self]

\* Memory with the bytes of `bytes` (a function from addresses) that differ from 0.
Mem(bytes) ==
    LET keys == { bus_index(k) : k \in { j \in DOMAIN bytes : bytes[j] # 0 } }
    IN  [k \in keys |-> bytes[CHOOSE j \in DOMAIN bytes : bus_index(j) = k /\ bytes[j] # 0]]

Entry ==
    /\ status = "running"
    /\ callbacks = 0
    /\ fetched = 0
    /\ cycles_due = 0
    /\ bus_cycles = 0
    /\ last = NoLast

\* Where CPU::load puts a program.
LOAD_BASE == \h0600

\* Program bytes of the run-loop scenarios: opcodes of every control-flow
\* kind, of plain instructions of each length, an undefined opcode, and
\* the operand bytes that make targets inside the program.
LoopBytes ==
    { \h00, \h01, \h06, \hFF, \h4C, \h6C, \h20, \h60, \h40,
      \hD0, \hF0, \hEA, \hA9, \hAD }

LoopBases == { LOAD_BASE, \hFFFD }

\* The CPU at the entry of the loop with the given registers and memory.
Harness(a, x, y, p, s, pc, mem) ==
    /\ register_a = a
    /\ register_x = x
    /\ register_y = y
    /\ register_p = p
    /\ stack_pointer = s
    /\ program_counter = pc
    /\ memory = mem
    /\ step_limit = MaxSteps
    /\ Entry

\* The same, followed for MaxRun iterations.
LongHarness(a, x, y, p, s, pc, mem) ==
    /\ register_a = a
    /\ register_x = x
    /\ register_y = y
    /\ register_p = p
    /\ stack_pointer = s
    /\ program_counter = pc
    /\ memory = mem
    /\ step_limit = MaxRun
    /\ Entry

\* The bytes `program` (a sequence) from address base on.
Program(base, program) ==
    [k \in { (base + i - 1) % 65536 : i \in 1 .. Len(program) } |->
        program[CHOOSE i \in 1 .. Len(program) : (base + i - 1) % 65536 = k]]

\* The registers of CPU::new and reset, three program bytes out of
\* LoopBytes at either base, and return bytes on the stack.
InitLoop ==
    /\ overflow_checks \in BOOLEAN
    /\ nmi_interrupt \in BOOLEAN
    /\ \E base \in LoopBases, b0 \in LoopBytes, b1 \in LoopBytes, b2 \in LoopBytes,
          ret \in { \h00, \h06 } :
          Harness(0, 0, 0, \h24, STACK_RESET, base,
                  Mem(Program(base, <<b0, b1, b2>>)
                      @@ (\h01FF :> ret) @@ (\h0100 :> ret)))

\* Every byte value as the opcode, under flags that take and that skip
\* each branch.
InitAnyOpcode ==
    /\ overflow_checks \in BOOLEAN
    /\ nmi_interrupt = FALSE
    /\ \E b0 \in Byte, b1 \in { \h01, \h10, \hFF }, b2 \in { \h00, \h06 },
          p \in { \h24, \hE7 } :
          Harness(0, 0, 0, p, STACK_RESET, LOAD_BASE,
                  Mem(Program(LOAD_BASE, <<b0, b1, b2>>)))

Init == InitLoop \/ InitAnyOpcode

Spec == Init /\ [][Next]_vars

(***************************************************************************)
(* Scenarios for single instructions: the same loop, started on a program  *)
(* of one instruction (or two) and a BRK, with the inputs of the           *)
(* instruction drawn from their ranges.                                    *)
(***************************************************************************)
\* Byte values at the edges of the unsigned and the signed range.
Samples == { \h00, \h01, \h0F, \h50, \h7F, \h80, \h81, \hD0, \hFE, \hFF }

\* ADC immediate on every A, operand and Carry; ADC immediate and zero
\* page on the sample values under every status byte.
InitAdc ==
    /\ nmi_interrupt = FALSE
    /\ \/ /\ overflow_checks = TRUE
          /\ \E a \in Byte, b \in Byte, c \in { 0, 1 } :
                Harness(a, 0, 0, \h24 + c, STACK_RESET, LOAD_BASE,
                        Mem(Program(LOAD_BASE, <<\h69, b>>)))
       \/ /\ overflow_checks \in BOOLEAN
          /\ \E a \in Samples, b \in Samples, p \in Byte :
                \/ Harness(a, 0, 0, p, STACK_RESET, LOAD_BASE,
                           Mem(Program(LOAD_BASE, <<\h69, b>>)))
                \/ Harness(a, 0, 0, p, STACK_RESET, LOAD_BASE,
                           Mem(Program(LOAD_BASE, <<\h65, \h10>>) @@ (\h10 :> b)))

SpecAdc == InitAdc /\ [][Next]_vars

\* CMP, CPX and CPY immediate on every register value and operand (the
\* two other registers hold the complement), and on the sample values
\* under every status byte.
CompareImmediate == { \hC9, \hE0, \hC0 }

CompareHarness(code, r, b, p) ==
    Harness(IF code = \hC9 THEN r ELSE 255 - r,
            IF code = \hE0 THEN r ELSE 255 - r,
            IF code = \hC0 THEN r ELSE 255 - r,
            p, STACK_RESET, LOAD_BASE, Mem(Program(LOAD_BASE, <<code, b>>)))

InitCompare ==
    /\ nmi_interrupt = FALSE
    /\ \/ /\ overflow_checks = TRUE
          /\ \E code \in CompareImmediate, r \in Byte, b \in Byte :
                CompareHarness(code, r, b, \h24)
       \/ /\ overflow_checks \in BOOLEAN
          /\ \E code \in CompareImmediate, r \in Samples, b \in Samples, p \in Byte :
                CompareHarness(code, r, b, p)

SpecCompare == InitCompare /\ [][Next]_vars

\* Loads in every addressing mode and the flag-updating transfers, each on
\* every byte value and every combination of Zero and Negative before.
\* The operand byte is 0x10, the operand word 0x0210, X is 4 and Y is 2;
\* the zero-page pointers of the indirect modes hold 0x0320.
LoadCodes ==
    { \hA9, \hA5, \hB5, \hAD, \hBD, \hB9, \hA1, \hB1,
      \hA2, \hA6, \hB6, \hAE, \hBE,
      \hA0, \hA4, \hB4, \hAC, \hBC }
TransferCodes == { \hAA, \hA8, \h8A, \h98, \hBA }

\* Where the harness puts the byte an instruction of the mode loads.
SourceAddr(mode) ==
    CASE mode = "Immediate"  -> LOAD_BASE + 1
      [] mode = "ZeroPage"   -> \h10
      [] mode = "ZeroPage_X" -> \h14
      [] mode = "ZeroPage_Y" -> \h12
      [] mode = "Absolute"   -> \h0210
      [] mode = "Absolute_X" -> \h0214
      [] mode = "Absolute_Y" -> \h0212
      [] mode = "Indirect_X" -> \h0320
      [] mode = "Indirect_Y" -> \h0322

LoadMemory(code, v) ==
    LET mode == op_mode(OPCODES_MAP[code])
        pointer == CASE mode = "Indirect_X" -> (\h14 :> \h20) @@ (\h15 :> \h03)
                     [] mode = "Indirect_Y" -> (\h10 :> \h20) @@ (\h11 :> \h03)
                     [] OTHER -> << >>
    IN  Mem((SourceAddr(mode) :> v) @@ pointer
            @@ Program(LOAD_BASE, SubSeq(<<code, \h10, \h02>>, 1,
                                         op_len(OPCODES_MAP[code]))))

InitLoad ==
    /\ nmi_interrupt = FALSE
    /\ overflow_checks \in BOOLEAN
    /\ \E v \in Byte, p \in { \h24, \h26, \hA4, \hA6 } :
          \/ \E code \in LoadCodes :
                Harness(\h55, \h04, \h02, p, STACK_RESET, LOAD_BASE, LoadMemory(code, v))
          \/ \E code \in { \hAA, \hA8 } :
                Harness(v, 255 - v, 255 - v, p, STACK_RESET, LOAD_BASE,
                        Mem(Program(LOAD_BASE, <<code>>)))
          \/ Harness(255 - v, v, 255 - v, p, STACK_RESET, LOAD_BASE,
                     Mem(Program(LOAD_BASE, <<\h8A>>)))
          \/ Harness(255 - v, 255 - v, v, p, STACK_RESET, LOAD_BASE,
                     Mem(Program(LOAD_BASE, <<\h98>>)))
          \/ Harness(255 - v, 255 - v, 255 - v, p, v, LOAD_BASE,
                     Mem(Program(LOAD_BASE, <<\hBA>>)))

SpecLoad == InitLoad /\ [][Next]_vars

\* JMP indirect at 0x0600 through pointers at the end of a page and inside
\* one, with separate bytes at q, at q + 1 and at the start of q's page.
IndirectPointers == { \h30FF, \h02FF, \h00FF, \hFFFF, \h0280, \h3080, \h07FE }

InitJmpIndirect ==
    /\ nmi_interrupt = FALSE
    /\ overflow_checks \in BOOLEAN
    /\ \E q \in IndirectPointers, lo \in { \h01, \h34 },
          same_page \in { \h06, \h12 }, next_page \in { \h06, \h56 } :
          Harness(0, 0, 0, \h24, STACK_RESET, LOAD_BASE,
                  Mem(Program(LOAD_BASE, <<\h6C, q % 256, q \div 256>>)
                      @@ (q :> lo)
                      @@ ((q - (q % 256)) :> same_page)
                      @@ (((q + 1) % 65536) :> next_page)))

SpecJmpIndirect == InitJmpIndirect /\ [][Next]_vars

\* PHA then PLA for every stack pointer and every byte, over a stack page
\* that holds other bytes around the slot; JSR then RTS from several
\* addresses for every stack pointer.
JsrBases == { LOAD_BASE, \h06FE, \h0700, \h07FD }
SUBROUTINE == \h0680

InitStack ==
    /\ nmi_interrupt = FALSE
    /\ overflow_checks \in BOOLEAN
    /\ \E sp \in Byte :
          \/ \E d \in Byte :
                Harness(d, 0, 0, \h24, sp, LOAD_BASE,
                        Mem(Program(LOAD_BASE, <<\h48, \h68>>)
                            @@ ((STACK + sp) :> ((d + 1) % 256))
                            @@ ((STACK + ((sp + 1) % 256)) :> ((d + 2) % 256))
                            @@ ((STACK + ((sp + 255) % 256)) :> ((d + 3) % 256))))
          \/ \E base \in JsrBases, junk \in { \h00, \hEE } :
                Harness(0, 0, 0, \h24, sp, base,
                        Mem(Program(base, <<\h20, SUBROUTINE % 256, SUBROUTINE \div 256>>)
                            @@ (SUBROUTINE :> \h60)
                            @@ ((STACK + sp) :> junk)
                            @@ ((STACK + ((sp + 255) % 256)) :> junk)))

SpecStack == InitStack /\ [][Next]_vars

\* The bytes of the instruction with opcode code in the harness layout:
\* operand byte 0x10, operand word 0x0210.
Instr(code) == SubSeq(<<code, \h10, \h02>>, 1, op_len(OPCODES_MAP[code]))

\* ROL then ROR on the accumulator and on one memory location in each
\* addressing mode, for every byte and either Carry.
RotatePairs ==
    { <<\h2A, \h6A>>, <<\h26, \h66>>, <<\h36, \h76>>, <<\h2E, \h6E>>, <<\h3E, \h7E>> }

\* The byte a shift or rotate with opcode code works on in the CPU c.
Operand(c, code) ==
    IF op_mode(OPCODES_MAP[code]) = "NoneAddressing"
    THEN c.a
    ELSE read_bytes(c.mem, SourceAddr(op_mode(OPCODES_MAP[code])))

\* Memory holding b where the instruction with opcode code finds its
\* operand (with the zero-page pointer of an indirect mode), and the
\* instructions `codes` from LOAD_BASE on.
OperandMemory(code, b, codes) ==
    LET mode == op_mode(OPCODES_MAP[code])
    IN  Mem((CASE mode = "NoneAddressing" -> << >>
               [] mode = "Indirect_X" ->
                    (\h0320 :> b) @@ (\h14 :> \h20) @@ (\h15 :> \h03)
               [] mode = "Indirect_Y" ->
                    (\h0322 :> b) @@ (\h10 :> \h20) @@ (\h11 :> \h03)
               [] OTHER -> (SourceAddr(mode) :> b))
            @@ Program(LOAD_BASE, codes))

InitRotate ==
    /\ nmi_interrupt = FALSE
    /\ overflow_checks \in BOOLEAN
    /\ \E pair \in RotatePairs, b \in Byte, p \in { \h24, \h25, \hE6, \hE7 } :
          Harness(IF pair[1] = \h2A THEN b ELSE 255 - b, \h04, \h02, p,
                  STACK_RESET, LOAD_BASE,
                  OperandMemory(pair[1], b, Instr(pair[1]) \o Instr(pair[2])))

SpecRotate == InitRotate /\ [][Next]_vars

\* INX at every address from LOAD_BASE on, two of them and then BRK or as
\* many as the run is followed for, from every X; A holds the starting X,
\* which no INX changes.
InitInx ==
    /\ nmi_interrupt = FALSE
    /\ overflow_checks \in BOOLEAN
    /\ \E x \in Byte, p \in { \h24, \hA6 }, n \in { 2, MaxRun } :
          LongHarness(x, x, 0, p, STACK_RESET, LOAD_BASE,
                      Mem(Program(LOAD_BASE, [i \in 1 .. n |-> \hE8])))

SpecInx == InitInx /\ [][Next]_vars

\* One instruction that changes a register, the flags, the stack or
\* memory, then BRK, from registers that differ from those of reset, with
\* each of several reset vectors at 0xFFFC/0xFFFD.
ResetPrograms == { <<\h00>>, <<\hE8>>, <<\h48>>, <<\h38>>, <<\hF8>>, <<\h85, \h10>> }

InitReset ==
    /\ nmi_interrupt = FALSE
    /\ overflow_checks \in BOOLEAN
    /\ \E v \in { \h00, \h5A, \hFF }, p \in { \h24, \h00, \hFF },
          sp \in { STACK_RESET, \h00, \h7F }, program \in ResetPrograms,
          lo \in { \h00, \h34, \hFF }, hi \in { \h00, \h80, \hFF } :
          Harness(v, v, v, p, sp, LOAD_BASE,
                  Mem(Program(LOAD_BASE, program)
                      @@ (\hFFFC :> lo) @@ (\hFFFD :> hi)))

SpecReset == InitReset /\ [][Next]_vars

\* The flags among Carry, Zero, Negative and Overflow that the instruction
\* with the mnemonic mn updates (the instructions that read a flag they
\* update, ADC, SBC, ROL and ROR, left out).
UpdatedFlags(mn) ==
    CASE mn \in { "ASL", "LSR", "CMP", "CPX", "CPY" } -> { CARRY, ZERO, NEGATIV }
      [] mn \in { "LDA", "LDX", "LDY", "TAX", "TAY", "TXA", "TYA", "TSX", "PLA",
                  "INC", "DEC", "INX", "INY", "DEX", "DEY", "AND", "ORA", "EOR" } ->
            { ZERO, NEGATIV }
      [] mn = "BIT" -> { ZERO, NEGATIV, OVERFLOW }
      [] mn \in { "CLC", "SEC" } -> { CARRY }
      [] mn = "CLV" -> { OVERFLOW }
      [] mn \in { "PLP", "RTI" } -> { CARRY, ZERO, NEGATIV, OVERFLOW }
      [] OTHER -> { }

FlagCodes == { code \in DOMAIN OPCODES_MAP : UpdatedFlags(OPCODES_MAP[code][2]) # { } }

\* Every instruction that updates a flag, in every addressing mode, on
\* operand bytes with each of bits 0, 6 and 7 set and clear; the same byte
\* is in A, on top of the stack and at the operand's address.
FlagOperands == { \h00, \h01, \h02, \h40, \h80, \hC1, \hFF }

InitFlags ==
    /\ nmi_interrupt = FALSE
    /\ overflow_checks \in BOOLEAN
    /\ \E code \in FlagCodes, v \in FlagOperands, a \in { \h00, \h01, \hFF },
          p \in { \h24, \h25, \hE7 } :
          Harness(a, \h04, \h02, p, STACK_RESET, LOAD_BASE,
                  Mem(OperandMemory(code, v, Instr(code))
                      @@ (\h01FE :> v) @@ (\h01FF :> \h06)))

SpecFlags == InitFlags /\ [][Next]_vars

\* ADC and SBC immediate on every A, operand and Carry with Decimal set;
\* every documented opcode once with Decimal set and once with it clear,
\* with status bytes on the stack that set and clear Decimal.
InitDecimal ==
    /\ nmi_interrupt = FALSE
    /\ \/ /\ overflow_checks = TRUE
          /\ \E code \in { \h69, \hE9 }, a \in Byte, b \in Byte, p \in { \h2C, \h2D } :
                Harness(a, 0, 0, p, STACK_RESET, LOAD_BASE,
                        Mem(Program(LOAD_BASE, <<code, b>>)))
       \/ /\ overflow_checks \in BOOLEAN
          /\ \E code \in DOMAIN OPCODES_MAP, p \in { \h24, \h2C, \hEF },
                pushed \in { \h00, \hFF } :
                Harness(\h5A, \h04, \h02, p, STACK_RESET, LOAD_BASE,
                        Mem(OperandMemory(code, \h5A, Instr(code))
                            @@ (\h01FE :> pushed) @@ (\h01FF :> \h06)))

SpecDecimal == InitDecimal /\ [][Next]_vars

\* Every branch opcode with every displacement byte, from addresses in the
\* middle and at either end of the address space, under flags that take
\* the branch and flags that do not.
BranchBases == { LOAD_BASE, \h0000, \hFFF0 }

InitBranch ==
    /\ nmi_interrupt = FALSE
    /\ overflow_checks \in BOOLEAN
    /\ \E code \in { \hD0, \h70, \h50, \h10, \h30, \hF0, \hB0, \h90 }, d \in Byte,
          base \in BranchBases, p \in { \h24, \hE7 } :
          Harness(0, 0, 0, p, STACK_RESET, base, Mem(Program(base, <<code, d>>)))

SpecBranch == InitBranch /\ [][Next]_vars

\* Every shift and rotate, accumulator and memory variants in every
\* addressing mode, on every byte under either Carry.
ShiftCodes ==
    { code \in DOMAIN OPCODES_MAP : OPCODES_MAP[code][2] \in { "ASL", "LSR", "ROL", "ROR" } }

InitShift ==
    /\ nmi_interrupt = FALSE
    /\ overflow_checks \in BOOLEAN
    /\ \E code \in ShiftCodes, v \in Byte, p \in { \h24, \h25, \hE6, \hE7 } :
          Harness(IF op_mode(OPCODES_MAP[code]) = "NoneAddressing" THEN v ELSE 255 - v,
                  \h04, \h02, p, STACK_RESET, LOAD_BASE,
                  OperandMemory(code, v, Instr(code)))

SpecShift == InitShift /\ [][Next]_vars

\* SBC immediate on every A, operand and Carry; SBC in every addressing
\* mode on the sample values.
InitSbc ==
    /\ nmi_interrupt = FALSE
    /\ \/ /\ overflow_checks = TRUE
          /\ \E a \in Byte, m \in Byte, c \in { 0, 1 } :
                Harness(a, 0, 0, \h24 + c, STACK_RESET, LOAD_BASE,
                        Mem(Program(LOAD_BASE, <<\hE9, m>>)))
       \/ /\ overflow_checks \in BOOLEAN
          /\ \E code \in { \hE9, \hE5, \hF5, \hED, \hFD, \hF9, \hE1, \hF1 },
                a \in Samples, m \in Samples, p \in { \h24, \h25, \hE6, \hE7 } :
                Harness(a, \h04, \h02, p, STACK_RESET, LOAD_BASE,
                        OperandMemory(code, m, IF code = \hE9 THEN <<code, m>> ELSE Instr(code)))

SpecSbc == InitSbc /\ [][Next]_vars

\* JSR from several addresses, at every stack pointer, to a subroutine
\* that returns at once or after a balanced push and pop, or to the
\* address of the JSR's own operand; X holds the starting S, which none of
\* these instructions changes.
Subroutines == { <<\h60>>, <<\h48, \h68, \h60>>, <<\h08, \h28, \h60>> }

InitJsr ==
    /\ nmi_interrupt = FALSE
    /\ overflow_checks \in BOOLEAN
    /\ \E sp \in Byte, base \in JsrBases, sub \in Subroutines, own \in BOOLEAN :
          LongHarness(\h5A, sp, 0, \h24, sp, base,
                      Mem(Program(base, IF own
                                        THEN <<\h20, (base + 1) % 256, (base + 1) \div 256>>
                                        ELSE <<\h20, SUBROUTINE % 256, SUBROUTINE \div 256>>)
                          @@ Program(SUBROUTINE, sub)))

SpecJsr == InitJsr /\ [][Next]_vars

\* PHP then PLP from every status byte, at stack pointers in the middle
\* and at either end of the page; PLP alone on every byte on the stack.
InitStatus ==
    /\ nmi_interrupt = FALSE
    /\ overflow_checks \in BOOLEAN
    /\ \E p \in Byte, sp \in { STACK_RESET, \h00, \hFF } :
          \/ Harness(0, 0, 0, p, sp, LOAD_BASE,
                     Mem(Program(LOAD_BASE, <<\h08, \h28>>)))
          \/ \E pushed \in Byte :
                /\ p \in { \h24, \hFF }
                /\ Harness(0, 0, 0, p, sp, LOAD_BASE,
                           Mem(Program(LOAD_BASE, <<\h28>>)
                               @@ ((STACK + ((sp + 1) % 256)) :> pushed)))

SpecStatus == InitStatus /\ [][Next]_vars

\* RTI at every stack pointer on status bytes and return addresses from
\* the samples, and on every status byte at the stack pointer of reset.
ReturnBytes == { \h00, \h01, \h06, \hFF }

RtiStack(sp, pushed, lo, hi) ==
    ((STACK + ((sp + 1) % 256)) :> pushed)
    @@ ((STACK + ((sp + 2) % 256)) :> lo)
    @@ ((STACK + ((sp + 3) % 256)) :> hi)

InitRti ==
    /\ nmi_interrupt = FALSE
    /\ overflow_checks \in BOOLEAN
    /\ \E p \in { \h24, \hFF, \h00 }, lo \in ReturnBytes, hi \in ReturnBytes :
          \/ \E sp \in Byte, pushed \in Samples :
                Harness(0, 0, 0, p, sp, LOAD_BASE,
                        Mem(Program(LOAD_BASE, <<\h40>>) @@ RtiStack(sp, pushed, lo, hi)))
          \/ \E pushed \in Byte :
                Harness(0, 0, 0, p, STACK_RESET, LOAD_BASE,
                        Mem(Program(LOAD_BASE, <<\h40>>)
                            @@ RtiStack(STACK_RESET, pushed, lo, hi)))

SpecRti == InitRti /\ [][Next]_vars

\* A store through each zero-page indexed and indirect mode, with every
\* operand byte and every index; the pointer word of the indirect modes is
\* 0x0334 or 0xFFFF, and 0x0100 holds a byte that is no part of it (the
\* indirect modes in the build with overflow checks, where an addition
\* that did not wrap would panic).
STORED == \hA5

InitZeroPage ==
    /\ nmi_interrupt = FALSE
    /\ \E b \in Byte, index \in Byte :
          \/ \E code \in { \h95, \h96 } :
                /\ overflow_checks \in BOOLEAN
                /\ Harness(STORED, IF code = \h95 THEN index ELSE STORED, index, \h24,
                        STACK_RESET, LOAD_BASE, Mem(Program(LOAD_BASE, <<code, b>>)))
          \/ \E word \in { <<\h34, \h03>>, <<\hFF, \hFF>> } :
                /\ overflow_checks = TRUE
                /\ \/ Harness(STORED, index, 0, \h24, STACK_RESET, LOAD_BASE,
                           Mem((((b + index) % 256) :> word[1])
                               @@ (((b + index + 1) % 256) :> word[2])
                               @@ (\h0100 :> \h07)
                               @@ Program(LOAD_BASE, <<\h81, b>>)))
                   \/ Harness(STORED, 0, index, \h24, STACK_RESET, LOAD_BASE,
                           Mem((b :> word[1])
                               @@ (((b + 1) % 256) :> word[2])
                               @@ (\h0100 :> \h07)
                               @@ Program(LOAD_BASE, <<\h91, b>>)))

SpecZeroPage == InitZeroPage /\ [][Next]_vars

\* Programs at the top of the address space: an opcode at 0xFFFF, two-
\* and three-byte instructions that end at 0xFFFF, operand words whose low
\* byte is at 0xFFFF, JSR with PC at 0xFFFE and at 0xFFFF after the fetch,
\* and RTS on the stacked word 0xFFFF, in either build.
TopPrograms ==
    { <<\hFFFF, <<\hEA>>>>, <<\hFFFF, <<\h00>>>>, <<\hFFFF, <<\hE8>>>>,
      <<\hFFFE, <<\hA9, \h01>>>>, <<\hFFFD, <<\hAD, \h10, \h02>>>>,
      <<\hFFFE, <<\h4C, \h10>>>>, <<\hFFFE, <<\hAD, \h10>>>>,
      <<\hFFFD, <<\h20, \h10, \h02>>>>, <<\hFFFE, <<\h20, \h10>>>>,
      <<LOAD_BASE, <<\h60>>>>, <<\hFFFC, <<\hEA, \hEA, \hEA>>>> }

InitOverflow ==
    /\ nmi_interrupt = FALSE
    /\ overflow_checks \in BOOLEAN
    /\ \E top \in TopPrograms, a \in { \h00, \h80 }, sp \in { STACK_RESET, \hFF, \h7F },
          p \in { \h24, \hE7 } :
          Harness(a, a, a, p, sp, top[1],
                  Mem(Program(top[1], top[2])
                      @@ (\h0000 :> \h02)
                      @@ ((STACK + ((sp + 1) % 256)) :> \hFF)
                      @@ ((STACK + ((sp + 2) % 256)) :> \hFF)))

SpecOverflow == InitOverflow /\ [][Next]_vars

\* From the registers of CPU::new and reset: every documented opcode
\* followed by two bytes that are PLP, RTI, PHP or operands, over a stack
\* and a zero page filled with one byte, which has Break set or clear.
BreakBytes == { \h08, \h10, \h28, \h40, \hFF }
StackFill == { \h00, \h10, \h30, \hEF, \hFF }

InitBreak ==
    /\ nmi_interrupt = FALSE
    /\ overflow_checks \in BOOLEAN
    /\ \E b0 \in DOMAIN OPCODES_MAP, b1 \in BreakBytes, b2 \in BreakBytes,
          fill \in StackFill :
          Harness(0, 0, 0, \h24, STACK_RESET, LOAD_BASE,
                  Mem(Program(LOAD_BASE, <<b0, b1, b2>>)
                      @@ [k \in { \h01FE, \h01FF, \h0100, \h0101, \h0102 }
                               \cup BreakBytes |-> fill]))

SpecBreak == InitBreak /\ [][Next]_vars

(***************************************************************************)
(* Properties of the run loop.  Flags of a status byte are read here by    *)
(* arithmetic on the byte, not through the operators of the model.         *)
(***************************************************************************)
FlagSet(p, f) == (p \div f) % 2 = 1

\* The byte at addr of the memory mem, and the little-endian word at addr
\* and addr + 1 (modulo 65536).
ByteAt(mem, addr) == read_bytes(mem, addr % 65536)
WordAt(mem, addr) == ByteAt(mem, addr) + 256 * ByteAt(mem, addr + 1)

\* The iteration just performed executed an instruction to its end.
Executed == last.valid /\ last.exit = "callback"

\* C1 (as amended): the callback is called once after every instruction
\* other than BRK and not for the BRK that ends the run: while the loop
\* runs there are as many calls as opcodes fetched, and when
\* run_with_callback has returned, after k instructions and the BRK, there
\* are k calls.
C1_CallbackPerNonBrkInstruction ==
    /\ status = "running" => callbacks = fetched
    /\ status = "returned" => callbacks = fetched - 1

\* C1, witness: a run of two instructions and a BRK has returned.
C1_Witness == status = "returned" /\ fetched = 3 /\ callbacks = 2

\* C1 as stated: a program of k instructions followed by BRK makes k + 1
\* calls of the callback, the last one for the BRK.
C1_CallbackAfterBrk == status = "returned" => callbacks = fetched

\* C2 as stated: when the next opcode is fetched the bus has been ticked by
\* the base cycle count of every instruction executed so far.
C2_BusTickedPerInstruction == bus_cycles = cycles_due

\* C3 as stated: an iteration that starts with the NMI latch set services
\* the NMI before any fetch: it consumes the latch, pushes PC and P (three
\* bytes), sets InterruptDisable and loads PC from 0xFFFA.
C3_NmiServicedBeforeFetch ==
    [][(status = "running" /\ nmi_interrupt) =>
          /\ ~nmi_interrupt'
          /\ stack_pointer' = (stack_pointer + 253) % 256
          /\ FlagSet(register_p', INTERRUPT_DISABLE)
          /\ program_counter' = WordAt(memory, 65530)]_vars

\* The branch opcode `code` is taken under the status byte p.
BranchCodes == { \hD0, \h70, \h50, \h10, \h30, \hF0, \hB0, \h90 }
BranchTaken(code, p) ==
    CASE code = \hD0 -> ~FlagSet(p, ZERO)
      [] code = \hF0 -> FlagSet(p, ZERO)
      [] code = \h50 -> ~FlagSet(p, OVERFLOW)
      [] code = \h70 -> FlagSet(p, OVERFLOW)
      [] code = \h10 -> ~FlagSet(p, NEGATIV)
      [] code = \h30 -> FlagSet(p, NEGATIV)
      [] code = \h90 -> ~FlagSet(p, CARRY)
      [] code = \hB0 -> FlagSet(p, CARRY)
      [] OTHER -> FALSE

\* The iteration l is a control-flow instruction: a jump, a call, a return
\* or a branch that is taken.
JumpCodes == { \h4C, \h6C, \h20, \h60, \h40 }
IsControlFlow(l) ==
    \/ l.code \in JumpCodes
    \/ l.code \in BranchCodes /\ BranchTaken(l.code, l.cpu.p)

\* The byte at offset k above the stack pointer of the CPU value c.
StackByte(c, k) == ByteAt(c.mem, STACK + ((c.s + k) % 256))

\* The word a JMP indirect through q reads: the high byte comes from the
\* start of q's page when q is the last byte of the page.
IndirectWord(mem, q) ==
    IF q % 256 = 255
    THEN ByteAt(mem, q) + 256 * ByteAt(mem, q - 255)
    ELSE ByteAt(mem, q) + 256 * ByteAt(mem, q + 1)

\* The target the control-flow instruction l computes, from the CPU before
\* it (its opcode is at l.cpu.pc).
ControlTarget(l) ==
    CASE l.code = \h4C -> WordAt(l.cpu.mem, l.cpu.pc + 1)
      [] l.code = \h6C -> IndirectWord(l.cpu.mem, WordAt(l.cpu.mem, l.cpu.pc + 1))
      [] l.code = \h20 -> WordAt(l.cpu.mem, l.cpu.pc + 1)
      [] l.code = \h60 -> (StackByte(l.cpu, 1) + 256 * StackByte(l.cpu, 2) + 1) % 65536
      [] l.code = \h40 -> StackByte(l.cpu, 2) + 256 * StackByte(l.cpu, 3)
      [] OTHER -> (l.cpu.pc + 2 + as_i8(ByteAt(l.cpu.mem, l.cpu.pc + 1)) + 65536) % 65536

\* C4 as stated: after a control-flow instruction PC is the target the
\* instruction computed, whatever the target.
C4_ControlFlowKeepsTarget ==
    (Executed /\ IsControlFlow(last)) => program_counter = ControlTarget(last)

\* C5: after an instruction that is not a control-flow instruction (an
\* untaken branch included) whose opcode is at p and whose length is L, PC
\* is p + L (modulo 65536).
C5_PlainInstructionAdvances ==
    (Executed /\ ~IsControlFlow(last)) =>
        program_counter = (last.cpu.pc + op_len(OPCODES_MAP[last.code])) % 65536

\* C5, witnesses: a three-byte load and an untaken branch were executed.
C5_Witness ==
    /\ Executed
    /\ last.code = \hAD
    /\ program_counter = last.cpu.pc + 3

C5_WitnessUntakenBranch ==
    /\ Executed
    /\ last.code = \hF0
    /\ ~FlagSet(last.cpu.p, ZERO)
    /\ program_counter = last.cpu.pc + 2

(***************************************************************************)
(* Properties of single instructions.                                     *)
(***************************************************************************)
\* The operand byte of the instruction l for the immediate and the
\* zero-page form.
ImmediateOperand(l) == ByteAt(l.cpu.mem, l.cpu.pc + 1)
ZeroPageOperand(l) == ByteAt(l.cpu.mem, ByteAt(l.cpu.mem, l.cpu.pc + 1))

\* The value of a byte read as a two's-complement number.
Signed(v) == IF v >= 128 THEN v - 256 ELSE v

\* After adding b and the carry c to the accumulator a: A and the flags.
AdcResult(a, b, c) ==
    /\ register_a = (a + b + c) % 256
    /\ FlagSet(register_p, CARRY) <=> (a + b + c > 255)
    /\ FlagSet(register_p, OVERFLOW) <=>
          (Signed(a) + Signed(b) + c < -128 \/ Signed(a) + Signed(b) + c > 127)
    /\ FlagSet(register_p, ZERO) <=> ((a + b + c) % 256 = 0)
    /\ FlagSet(register_p, NEGATIV) <=> ((a + b + c) % 256 >= 128)

\* C6: for every accumulator a, operand b and incoming Carry c, ADC leaves
\* A = (a + b + c) mod 256, Carry iff a + b + c > 255, Overflow iff the
\* signed sum is outside -128..127, Zero iff A = 0, Negative iff bit 7 of A.
C6_AdcSumAndFlags ==
    /\ (Executed /\ last.code = \h69) =>
          AdcResult(last.cpu.a, ImmediateOperand(last), last.cpu.p % 2)
    /\ (Executed /\ last.code = \h65) =>
          AdcResult(last.cpu.a, ZeroPageOperand(last), last.cpu.p % 2)

\* C6, witness: 0x50 + 0x50 with Carry clear gave 0xA0 with Overflow and
\* Negative set and Carry clear.
C6_Witness ==
    /\ Executed
    /\ last.code = \h69
    /\ last.cpu.a = \h50
    /\ ImmediateOperand(last) = \h50
    /\ last.cpu.p % 2 = 0
    /\ register_a = \hA0
    /\ FlagSet(register_p, OVERFLOW)
    /\ FlagSet(register_p, NEGATIV)
    /\ ~FlagSet(register_p, CARRY)

\* The register a compare instruction compares: A for CMP, X for CPX, Y
\* for CPY.
ComparedRegister(l) ==
    CASE l.code = \hC9 -> l.cpu.a
      [] l.code = \hE0 -> l.cpu.x
      [] l.code = \hC0 -> l.cpu.y

\* C7: for every register value a and operand b, whatever the flags
\* before, a compare leaves Carry = (a >= b), Zero = (a = b) and Negative =
\* bit 7 of (a - b) mod 256.
C7_CompareFlags ==
    (Executed /\ last.code \in CompareImmediate) =>
        LET a == ComparedRegister(last)
            b == ImmediateOperand(last)
        IN  /\ FlagSet(register_p, CARRY) <=> (a >= b)
            /\ FlagSet(register_p, ZERO) <=> (a = b)
            /\ FlagSet(register_p, NEGATIV) <=> ((a - b + 256) % 256 >= 128)

\* C7, witness: CPX of equal values under a status byte that had Carry and
\* Zero clear and Negative set.
C7_Witness ==
    /\ Executed
    /\ last.code = \hE0
    /\ last.cpu.x = \h80
    /\ ImmediateOperand(last) = \h80
    /\ last.cpu.p = \hA4
    /\ FlagSet(register_p, CARRY)
    /\ FlagSet(register_p, ZERO)
    /\ ~FlagSet(register_p, NEGATIV)

\* The byte the load or transfer l places: the byte the harness stored for
\* the addressing mode, or the source register.
PlacedValue(l) ==
    CASE l.code \in LoadCodes -> ByteAt(l.cpu.mem, SourceAddr(op_mode(OPCODES_MAP[l.code])))
      [] l.code \in { \hAA, \hA8 } -> l.cpu.a
      [] l.code = \h8A -> l.cpu.x
      [] l.code = \h98 -> l.cpu.y
      [] l.code = \hBA -> l.cpu.s

\* The register the load or transfer l writes, as it is now.
Destination(l) ==
    CASE l.code \in { \hA9, \hA5, \hB5, \hAD, \hBD, \hB9, \hA1, \hB1, \h8A, \h98 } -> register_a
      [] l.code \in { \hA2, \hA6, \hB6, \hAE, \hBE, \hAA, \hBA } -> register_x
      [] l.code \in { \hA0, \hA4, \hB4, \hAC, \hBC, \hA8 } -> register_y

\* C8: a load (any addressing mode) or a flag-updating transfer that places
\* the byte v leaves its destination register equal to v, Zero set iff
\* v = 0 and Negative set iff v >= 0x80, whatever the two flags were.
C8_LoadSetsRegisterAndFlags ==
    (Executed /\ last.code \in LoadCodes \cup TransferCodes) =>
        LET v == PlacedValue(last)
        IN  /\ Destination(last) = v
            /\ FlagSet(register_p, ZERO) <=> (v = 0)
            /\ FlagSet(register_p, NEGATIV) <=> (v >= 128)

\* C8, witnesses: LDA (indirect),Y loaded 0x80 when Zero was set and
\* Negative clear; TSX moved 0 when Negative was set and Zero clear.
C8_Witness ==
    /\ Executed
    /\ last.code = \hB1
    /\ last.cpu.p = \h26
    /\ register_a = \h80
    /\ register_p = \hA4

C8_WitnessTransfer ==
    /\ Executed
    /\ last.code = \hBA
    /\ last.cpu.p = \hA4
    /\ last.cpu.x = \hFF
    /\ register_x = 0
    /\ register_p = \h26

\* The pointer operand of the JMP indirect l.
IndirectPointer(l) == WordAt(l.cpu.mem, l.cpu.pc + 1)

\* C9: after JMP indirect with pointer operand q, PC is the word whose low
\* byte is at q and whose high byte is at (q AND 0xFF00) when the low byte
\* of q is 0xFF, and the little-endian word at q and q + 1 otherwise.
C9_JmpIndirectTarget ==
    (Executed /\ last.code = \h6C) =>
        program_counter = IndirectWord(last.cpu.mem, IndirectPointer(last))

\* The JMP indirect arm itself assigns that word to the program counter;
\* PC differs from it after the instruction only by the loop's advance.
JmpIndirectArmSetsWord ==
    (Executed /\ last.code = \h6C) =>
        /\ last.arm_pc = IndirectWord(last.cpu.mem, IndirectPointer(last))
        /\ (program_counter # last.arm_pc) => last.arm_pc = (last.cpu.pc + 1) % 65536

\* The addresses a push of one byte and a pop of one byte access from the
\* stack pointer sp.
PushAddr(sp) == STACK + sp
PopAddr(sp)  == STACK + ((sp + 1) % 256)

\* C10: a push decrements and a pop increments S modulo 256, every stack
\* access is at 0x0100 + S inside 0x0100..0x01FF, and a push followed at
\* once by a pop gives back the pushed value and the starting S, for one
\* byte (PHA, PLA) and for a word (JSR, RTS), at every S.
C10_PushPopRoundTrip ==
    /\ last.valid => \A i \in 1 .. Len(last.stk) : last.stk[i] \in \h0100 .. \h01FF
    /\ (Executed /\ last.code = \h48) =>
          /\ last.stk = <<PushAddr(last.cpu.s)>>
          /\ stack_pointer = (last.cpu.s + 255) % 256
          /\ ByteAt(memory, PushAddr(last.cpu.s)) = last.cpu.a
    /\ (Executed /\ last.code = \h68) =>
          /\ last.stk = <<PopAddr(last.cpu.s)>>
          /\ stack_pointer = (last.cpu.s + 1) % 256
          /\ last.stk = <<STACK + stack_pointer>>
    /\ (Executed /\ last.code = \h68 /\ last.prev_code = \h48) =>
          /\ register_a = last.prev_cpu.a
          /\ stack_pointer = last.prev_cpu.s
    /\ (Executed /\ last.code = \h20) =>
          /\ last.stk = <<PushAddr(last.cpu.s), PushAddr((last.cpu.s + 255) % 256)>>
          /\ stack_pointer = (last.cpu.s + 254) % 256
          /\ ByteAt(memory, last.stk[1]) = ((last.cpu.pc + 2) % 65536) \div 256
          /\ ByteAt(memory, last.stk[2]) = ((last.cpu.pc + 2) % 65536) % 256
    /\ (Executed /\ last.code = \h60) =>
          /\ last.stk = <<PopAddr(last.cpu.s), PopAddr((last.cpu.s + 1) % 256)>>
          /\ stack_pointer = (last.cpu.s + 2) % 256
    /\ (Executed /\ last.code = \h60 /\ last.prev_code = \h20) =>
          /\ program_counter = (last.prev_cpu.pc + 3) % 65536
          /\ stack_pointer = last.prev_cpu.s

\* C10, witnesses: PHA at S = 0x00 then PLA at S = 0xFF gave back 0x5A;
\* JSR at S = 0x00 put its bytes at 0x0100 and 0x01FF and RTS came back.
C10_Witness ==
    /\ Executed
    /\ last.code = \h68
    /\ last.prev_code = \h48
    /\ last.prev_cpu.s = 0
    /\ last.cpu.s = \hFF
    /\ last.stk = <<\h0100>>
    /\ register_a = \h5A
    /\ stack_pointer = 0

C10_WitnessWord ==
    /\ Executed
    /\ last.code = \h60
    /\ last.prev_code = \h20
    /\ last.prev_cpu.s = 0
    /\ last.stk = <<\h01FF, \h0100>>
    /\ program_counter = \h0603
    /\ stack_pointer = 0

\* C11: ROL followed by ROR on the same location (the accumulator, or the
\* same memory address) restores the byte and Carry to what they were
\* before the ROL.
C11_RolRorRoundTrip ==
    (Executed /\ <<last.prev_code, last.code>> \in RotatePairs) =>
        /\ Operand(Self, last.code) = Operand(last.prev_cpu, last.code)
        /\ FlagSet(register_p, CARRY) <=> FlagSet(last.prev_cpu.p, CARRY)

\* C11, witnesses: 0x81 with Carry clear went through 0x02 with Carry set
\* and came back, in the accumulator and at 0x0214 (absolute,X).
C11_Witness ==
    /\ Executed
    /\ last.prev_code = \h2A
    /\ last.code = \h6A
    /\ last.prev_cpu.a = \h81
    /\ ~FlagSet(last.prev_cpu.p, CARRY)
    /\ last.cpu.a = \h02
    /\ FlagSet(last.cpu.p, CARRY)
    /\ register_a = \h81
    /\ ~FlagSet(register_p, CARRY)

C11_WitnessMemory ==
    /\ Executed
    /\ last.prev_code = \h3E
    /\ last.code = \h7E
    /\ ByteAt(last.prev_cpu.mem, \h0214) = \h81
    /\ ByteAt(last.cpu.mem, \h0214) = \h02
    /\ ByteAt(memory, \h0214) = \h81
    /\ register_a = \h7E

\* C12: INX never aborts; after k INX in a row X is its starting value
\* plus k modulo 256, so that 256 of them leave X as it started; one INX
\* at X = 0xFF gives X = 0x00 with Zero set.
C12_InxWraps ==
    (last.valid /\ last.code = \hE8) =>
        /\ Executed
        /\ register_x = (last.cpu.x + 1) % 256
        /\ last.cpu.x = \hFF => (register_x = 0 /\ FlagSet(register_p, ZERO))
        /\ (callbacks = fetched /\ fetched <= 256) =>
              register_x = (register_a + fetched) % 256
        /\ (callbacks = 256 /\ fetched = 256) => register_x = register_a

\* C12, witness: the 256th INX in a row has run from X = 0x80, with
\* overflow checks, and X is 0x80 again.
C12_Witness ==
    /\ Executed
    /\ last.code = \hE8
    /\ callbacks = 256
    /\ fetched = 256
    /\ overflow_checks
    /\ register_a = \h80
    /\ last.cpu.x = \h7F
    /\ register_x = \h80

C12_WitnessWrap ==
    /\ Executed
    /\ last.code = \hE8
    /\ overflow_checks
    /\ last.cpu.x = \hFF
    /\ register_x = 0
    /\ FlagSet(register_p, ZERO)

\* C13: reset leaves A = X = Y = 0, S = 0xFD, P = 0b00100100, PC equal to
\* the little-endian word at 0xFFFC/0xFFFD, and memory as it was.
C13_ResetState ==
    (last.valid /\ last.exit = "reset") =>
        /\ status = "reset"
        /\ register_a = 0
        /\ register_x = 0
        /\ register_y = 0
        /\ stack_pointer = \hFD
        /\ register_p = 36
        /\ program_counter = WordAt(last.cpu.mem, \hFFFC)
        /\ memory = last.cpu.mem

\* C13, witness: reset from A = X = 0xFF, Y = 0xFF, all flags set, S moved
\* by a PHA, with the vector 0x8034.
C13_Witness ==
    /\ last.valid
    /\ last.exit = "reset"
    /\ last.cpu.a = \hFF
    /\ last.cpu.p = \hFF
    /\ last.cpu.s = \h7E
    /\ last.cpu.pc = \h0602
    /\ ByteAt(last.cpu.mem, \h017F) = \hFF
    /\ program_counter = \h8034
    /\ register_p = \h24

C14_WitnessNoBrk ==
    /\ status = "running"
    /\ fetched = 3
    /\ last.code = \h4C
    /\ last.prev_code = \h4C
    /\ program_counter = last.cpu.pc

\* The status register after the instruction l, had it run from the same
\* CPU with the status register p.
StatusFrom(l, p) == loop_body([l.cpu EXCEPT !.p = p]).cpu.p

\* C15: an instruction other than ADC, SBC, ROL, ROR and the branches,
\* run from the same state under any other status register, ends with the
\* same value of each flag among Carry, Zero, Negative and Overflow that
\* it updates.
C15_FlagsIndependentOfStatus ==
    (Executed /\ last.code \in FlagCodes) =>
        \A p \in Byte : \A f \in UpdatedFlags(OPCODES_MAP[last.code][2]) :
            FlagSet(StatusFrom(last, p), f) <=> FlagSet(register_p, f)

\* The status register p with the Decimal flag flipped.
FlipDecimal(p) == IF FlagSet(p, DECIMAL_MODE) THEN p - DECIMAL_MODE ELSE p + DECIMAL_MODE

\* The CPU after the instruction l, had it run with the Decimal flag flipped.
DecimalFlipped(l) == loop_body([l.cpu EXCEPT !.p = FlipDecimal(l.cpu.p)]).cpu

\* The opcodes of ADC and SBC, and those that may change the Decimal flag:
\* SED, CLD, PLP and RTI.
ArithmeticCodes ==
    { code \in DOMAIN OPCODES_MAP : OPCODES_MAP[code][2] \in { "ADC", "SBC" } }
DecimalCodes == { \hF8, \hD8, \h28, \h40 }

\* C16: ADC and SBC give the same A, Carry, Overflow, Zero and Negative
\* with Decimal set as with Decimal clear, and no instruction other than
\* SED, CLD, PLP and RTI changes the Decimal flag.
C16_DecimalHasNoEffect ==
    /\ (Executed /\ last.code \in ArithmeticCodes) =>
          /\ DecimalFlipped(last).a = register_a
          /\ \A f \in { CARRY, OVERFLOW, ZERO, NEGATIV } :
                FlagSet(DecimalFlipped(last).p, f) <=> FlagSet(register_p, f)
    /\ (Executed /\ last.code \notin DecimalCodes) =>
          (FlagSet(register_p, DECIMAL_MODE) <=> FlagSet(last.cpu.p, DECIMAL_MODE))
    /\ (Executed /\ last.code = \hF8) => FlagSet(register_p, DECIMAL_MODE)
    /\ (Executed /\ last.code = \hD8) => ~FlagSet(register_p, DECIMAL_MODE)

\* C16, witness: 0x09 + 0x01 with Decimal set gave the binary sum 0x0A,
\* Decimal still set.
C16_Witness ==
    /\ Executed
    /\ last.code = \h69
    /\ last.cpu.a = \h09
    /\ ImmediateOperand(last) = \h01
    /\ last.cpu.p = \h2C
    /\ register_a = \h0A
    /\ register_p = \h2C

C16_WitnessSbc ==
    /\ Executed
    /\ last.code = \hE9
    /\ last.cpu.a = \h10
    /\ ImmediateOperand(last) = \h01
    /\ last.cpu.p = \h2D
    /\ register_a = \h0F
    /\ FlagSet(register_p, DECIMAL_MODE)

\* The iteration just performed fetched the opcode byte last.code.
Fetched == last.valid /\ last.exit \in { "callback", "return", "panic" }

\* C17: an opcode byte without an entry in the table of the 151 documented
\* opcodes aborts the run with A, X, Y, S, P and memory as they were, and
\* no documented opcode reaches the fall-through arm: where no arithmetic
\* overflow can panic (a build without overflow checks) the iteration of
\* a documented opcode never panics.
C17_UnknownOpcodeAborts ==
    /\ Cardinality(DOMAIN OPCODES_MAP) = 151
    /\ (Fetched /\ last.code \notin DOMAIN OPCODES_MAP) =>
          /\ status = "panicked"
          /\ last.exit = "panic"
          /\ register_a = last.cpu.a
          /\ register_x = last.cpu.x
          /\ register_y = last.cpu.y
          /\ stack_pointer = last.cpu.s
          /\ register_p = last.cpu.p
          /\ memory = last.cpu.mem
    /\ (Fetched /\ last.code \in DOMAIN OPCODES_MAP /\ ~overflow_checks) =>
          last.exit # "panic"

\* C17, witnesses: the undefined opcode 0x02 aborted the run; the
\* documented opcode 0xFE (INC absolute,X) ran to its end.
C17_Witness ==
    /\ Fetched
    /\ last.code = \h02
    /\ status = "panicked"
    /\ program_counter = \h0601
    /\ register_p = \hE7

C17_WitnessDocumented ==
    /\ Executed
    /\ last.code = \hFE
    /\ ~overflow_checks
    /\ program_counter = \h0603

\* The displacement byte of the branch l, at the address after its opcode.
Displacement(l) == ByteAt(l.cpu.mem, l.cpu.pc + 1)

\* C18: after a taken branch whose displacement byte d is at q, PC is
\* (q + 1 + signed(d)) mod 65536, for every d; after an untaken branch PC
\* is q + 1.
C18_BranchTarget ==
    (Executed /\ last.code \in BranchCodes) =>
        program_counter =
            IF BranchTaken(last.code, last.cpu.p)
            THEN (last.cpu.pc + 2 + Signed(Displacement(last)) + 65536) % 65536
            ELSE last.cpu.pc + 2

\* The branch arm sets PC to that target for every displacement; only the
\* displacement 0xFF, whose target is the address of the displacement
\* byte, is then advanced by the loop.
BranchArmSetsTarget ==
    (Executed /\ last.code \in BranchCodes /\ BranchTaken(last.code, last.cpu.p)) =>
        /\ last.arm_pc = (last.cpu.pc + 2 + Signed(Displacement(last)) + 65536) % 65536
        /\ (program_counter # last.arm_pc) <=> (Displacement(last) = \hFF)
        /\ Displacement(last) = \hFF => program_counter = (last.cpu.pc + 2) % 65536

\* The bit the shift or rotate mn moves out of the byte v, and the byte it
\* leaves when the incoming Carry is cin.
ShiftedOut(mn, v) == IF mn \in { "ASL", "ROL" } THEN v \div 128 ELSE v % 2

Shifted(mn, v, cin) ==
    CASE mn = "ASL" -> (2 * v) % 256
      [] mn = "LSR" -> v \div 2
      [] mn = "ROL" -> ((2 * v) % 256) + cin
      [] mn = "ROR" -> (v \div 2) + (128 * cin)

\* C19: every shift and rotate, accumulator and memory variant alike,
\* leaves Carry equal to the bit shifted out of its operand (bit 7 for ASL
\* and ROL, bit 0 for LSR and ROR), the shifted byte in its operand's
\* place, and Zero and Negative from that byte, so that the memory variant
\* gives what the accumulator variant gives on the same input.
C19_ShiftCarryIsBitOut ==
    (Executed /\ last.code \in ShiftCodes) =>
        LET mn == OPCODES_MAP[last.code][2]
            v == Operand(last.cpu, last.code)
            res == Shifted(mn, v, last.cpu.p % 2)
        IN  /\ FlagSet(register_p, CARRY) <=> (ShiftedOut(mn, v) = 1)
            /\ Operand(Self, last.code) = res
            /\ FlagSet(register_p, ZERO) <=> (res = 0)
            /\ FlagSet(register_p, NEGATIV) <=> (res >= 128)

\* The operand byte of the SBC l: the byte after the opcode, or the byte
\* the harness stored for the addressing mode.
SbcOperand(l) ==
    IF l.code = \hE9
    THEN ImmediateOperand(l)
    ELSE ByteAt(l.cpu.mem, SourceAddr(op_mode(OPCODES_MAP[l.code])))

\* The CPU after ADC immediate of the byte b, run from the CPU c with the
\* instruction put in place of the one at its PC.
AfterAdcImmediate(c, b) ==
    loop_body([c EXCEPT !.mem = write_bytes(write_bytes(c.mem, c.pc, \h69),
                                            (c.pc + 1) % 65536, b)]).cpu

\* C20: SBC of m from a with Carry c gives the A, Carry, Overflow, Zero
\* and Negative that ADC of (m XOR 0xFF) = 255 - m gives, which makes
\* A = (a - m - (1 - c)) mod 256 and Carry set iff no borrow occurred.
C20_SbcIsAdcOfComplement ==
    (Executed /\ OPCODES_MAP[last.code][2] = "SBC") =>
        LET a == last.cpu.a
            m == SbcOperand(last)
            c == last.cpu.p % 2
        IN  /\ AdcResult(a, 255 - m, c)
            /\ register_a = AfterAdcImmediate(last.cpu, BitXor(m, \hFF)).a
            /\ register_p = AfterAdcImmediate(last.cpu, BitXor(m, \hFF)).p
            /\ register_a = (a - m - (1 - c) + 512) % 256
            /\ FlagSet(register_p, CARRY) <=> (a - m - (1 - c) >= 0)

\* C20, witnesses: 0x00 - 0x80 with Carry set gave 0x80 with a borrow and
\* signed overflow; 0x50 - 0x00 with Carry clear gave 0x4F without borrow.
C20_Witness ==
    /\ Executed
    /\ last.code = \hE9
    /\ last.cpu.a = \h00
    /\ ImmediateOperand(last) = \h80
    /\ last.cpu.p = \h25
    /\ register_a = \h80
    /\ ~FlagSet(register_p, CARRY)
    /\ FlagSet(register_p, OVERFLOW)

C20_WitnessZeroOperand ==
    /\ Executed
    /\ last.code = \hE9
    /\ last.cpu.a = \h50
    /\ ImmediateOperand(last) = \h00
    /\ last.cpu.p = \h24
    /\ register_a = \h4F
    /\ FlagSet(register_p, CARRY)

\* The address of the JSR of the program in memory.
JsrAddress == CHOOSE base \in JsrBases : ByteAt(memory, base) = \h20

\* C21: JSR at p pushes the word p + 2, high byte first, and sets PC to
\* its operand word; RTS pops a word and sets PC to it plus 1; an RTS
\* reached after a JSR with the stack balanced in between resumes at p + 3
\* with S as it was before the JSR.
C21_JsrRtsLinkage ==
    /\ (Executed /\ last.code = \h20) =>
          /\ last.stk = <<PushAddr(last.cpu.s), PushAddr((last.cpu.s + 255) % 256)>>
          /\ ByteAt(memory, last.stk[1]) = (last.cpu.pc + 2) \div 256
          /\ ByteAt(memory, last.stk[2]) = (last.cpu.pc + 2) % 256
          /\ stack_pointer = (last.cpu.s + 254) % 256
          /\ program_counter = WordAt(last.cpu.mem, last.cpu.pc + 1)
    /\ (Executed /\ last.code = \h60) =>
          /\ program_counter =
                (StackByte(last.cpu, 1) + 256 * StackByte(last.cpu, 2) + 1) % 65536
          /\ stack_pointer = (last.cpu.s + 2) % 256
          /\ program_counter = JsrAddress + 3
          /\ stack_pointer = register_x

\* The JSR arm itself pushes that word and assigns the operand word to
\* PC; PC differs from it after the iteration only when the operand word
\* is the address of the operand.
JsrArmSetsTarget ==
    (Executed /\ last.code = \h20) =>
        /\ last.arm_pc = WordAt(last.cpu.mem, last.cpu.pc + 1)
        /\ (program_counter # last.arm_pc) <=> (last.arm_pc = last.cpu.pc + 1)
        /\ last.arm_pc = last.cpu.pc + 1 => program_counter = last.cpu.pc + 3

\* The byte p with bits 4 and 5 (Break and Break2) set, and with both clear.
WithBreaks(p) == ((p \div 64) * 64) + 48 + (p % 16)
WithoutBreaks(p) == ((p \div 64) * 64) + (p % 16)

\* C22: PHP pushes P with Break and Break2 set and leaves P as it was; PLP
\* sets P to the popped byte with Break and Break2 cleared; PHP followed
\* by PLP leaves P with bits 4 and 5 cleared and the other bits as before.
C22_PhpPlp ==
    /\ (Executed /\ last.code = \h08) =>
          /\ ByteAt(memory, PushAddr(last.cpu.s)) = WithBreaks(last.cpu.p)
          /\ register_p = last.cpu.p
    /\ (Executed /\ last.code = \h28) =>
          register_p = WithoutBreaks(StackByte(last.cpu, 1))
    /\ (Executed /\ last.code = \h28 /\ last.prev_code = \h08) =>
          register_p = WithoutBreaks(last.prev_cpu.p)

\* C22, witnesses: PHP pushed 0xF3 from P = 0xC3 and PLP gave 0xC3 back;
\* from P = 0xFF the pair left 0xCF.
C22_Witness ==
    /\ Executed
    /\ last.code = \h28
    /\ last.prev_code = \h08
    /\ last.prev_cpu.p = \hFF
    /\ last.cpu.p = \hFF
    /\ StackByte(last.cpu, 1) = \hFF
    /\ register_p = \hCF

C22_WitnessPushed ==
    /\ Executed
    /\ last.code = \h08
    /\ last.cpu.p = \hC3
    /\ last.cpu.s = \h00
    /\ ByteAt(memory, \h0100) = \hF3
    /\ register_p = \hC3
    /\ stack_pointer = \hFF

\* C23: RTI pops one byte into P, with Break cleared and Break2 set, then
\* pops a word, low byte first, into PC without adjusting it; S has
\* increased by 3 modulo 256.
C23_RtiPopsStatusThenPc ==
    (Executed /\ last.code = \h40) =>
        /\ last.stk = <<PopAddr(last.cpu.s), PopAddr((last.cpu.s + 1) % 256),
                        PopAddr((last.cpu.s + 2) % 256)>>
        /\ register_p = WithoutBreaks(StackByte(last.cpu, 1)) + 32
        /\ program_counter = StackByte(last.cpu, 2) + 256 * StackByte(last.cpu, 3)
        /\ stack_pointer = (last.cpu.s + 3) % 256

\* C23, witness: RTI at S = 0xFE read P at 0x01FF and PC at 0x0100 and
\* 0x0101: 0xFF became 0xEF and PC is 0x0601.
C23_Witness ==
    /\ Executed
    /\ last.code = \h40
    /\ last.cpu.s = \hFE
    /\ last.stk = <<\h01FF, \h0100, \h0101>>
    /\ ByteAt(last.cpu.mem, \h01FF) = \hFF
    /\ register_p = \hEF
    /\ program_counter = \h0601
    /\ stack_pointer = 1

\* The little-endian word of the zero page at ptr and (ptr + 1) mod 256.
ZeroPageWord(mem, ptr) == ByteAt(mem, ptr % 256) + 256 * ByteAt(mem, (ptr + 1) % 256)

\* The address the store l is to resolve, from the CPU before it.
ResolvedAddr(l) ==
    CASE l.code = \h95 -> (ImmediateOperand(l) + l.cpu.x) % 256
      [] l.code = \h96 -> (ImmediateOperand(l) + l.cpu.y) % 256
      [] l.code = \h81 -> ZeroPageWord(l.cpu.mem, ImmediateOperand(l) + l.cpu.x)
      [] l.code = \h91 ->
            (ZeroPageWord(l.cpu.mem, ImmediateOperand(l)) + l.cpu.y) % 65536

\* C24: zero page,X and zero page,Y resolve to (b + index) mod 256;
\* (indirect,X) to the word at ptr = (b + X) mod 256 and (ptr + 1) mod 256;
\* (indirect),Y to the word at b and (b + 1) mod 256 plus Y modulo 65536:
\* the store writes that address and no other.
C24_ZeroPageWraps ==
    (Executed /\ last.code \in { \h95, \h96, \h81, \h91 }) =>
        /\ ByteAt(memory, ResolvedAddr(last)) = STORED
        /\ \A k \in (DOMAIN memory \cup DOMAIN last.cpu.mem) \ { ResolvedAddr(last) } :
              ByteAt(memory, k) = ByteAt(last.cpu.mem, k)

\* C24, witnesses: STA ($FF),Y with Y = 1 took its pointer 0x0334 from
\* 0x00FF and 0x0000 and stored at 0x0335; STA ($80,X) with X = 0x7F did
\* the same and stored at 0x0334; STA $80,X with X = 0x90 stored at 0x0010.
C24_Witness ==
    /\ Executed
    /\ last.code = \h91
    /\ ImmediateOperand(last) = \hFF
    /\ last.cpu.y = 1
    /\ ByteAt(last.cpu.mem, \h00FF) = \h34
    /\ ByteAt(last.cpu.mem, \h0000) = \h03
    /\ ByteAt(last.cpu.mem, \h0335) = 0
    /\ ByteAt(memory, \h0335) = STORED

C24_WitnessIndirectX ==
    /\ Executed
    /\ last.code = \h81
    /\ ImmediateOperand(last) = \h80
    /\ last.cpu.x = \h7F
    /\ ByteAt(last.cpu.mem, \h0334) = 0
    /\ ByteAt(memory, \h0334) = STORED

C24_WitnessZeroPageX ==
    /\ Executed
    /\ last.code = \h95
    /\ ImmediateOperand(last) = \h80
    /\ last.cpu.x = \h90
    /\ ByteAt(last.cpu.mem, \h0010) = 0
    /\ ByteAt(memory, \h0010) = STORED

\* C25: no step of the run loop aborts on 16-bit overflow: the only abort
\* is that of an opcode byte without a table entry, found after a PC
\* increment that did not overflow.
C25_NoOverflowAbort ==
    (Fetched /\ last.exit = "panic") =>
        /\ last.code \notin DOMAIN OPCODES_MAP
        /\ last.cpu.pc < \hFFFF

\* In the build without overflow checks the same computations wrap: the
\* PC increment and the advance give PC modulo 65536, a word whose low
\* byte is at 0xFFFF has its high byte at 0x0000, JSR with PC = 0xFFFF
\* pushes 0x0000, and RTS on 0xFFFF gives PC = 0x0000.
OverflowWrapsWithoutChecks ==
    (~overflow_checks /\ Fetched /\ last.code \in DOMAIN OPCODES_MAP) =>
        /\ last.exit # "panic"
        /\ (last.code \in { \hEA, \hE8, \hA9, \hAD }) =>
              program_counter = (last.cpu.pc + op_len(OPCODES_MAP[last.code])) % 65536
        /\ (last.code \in { \h4C, \h20 }) =>
              program_counter = WordAt(last.cpu.mem, last.cpu.pc + 1)
        /\ (last.code = \h20) =>
              /\ ByteAt(memory, PushAddr(last.cpu.s)) = ((last.cpu.pc + 2) % 65536) \div 256
              /\ ByteAt(memory, PushAddr((last.cpu.s + 255) % 256)) = (last.cpu.pc + 2) % 256
        /\ (last.code = \h60) =>
              program_counter =
                 (StackByte(last.cpu, 1) + 256 * StackByte(last.cpu, 2) + 1) % 65536

\* C26: from the registers of CPU::new and reset, Break (bit 4 of P) is
\* clear in every state, whatever PLP and RTI pop; Break2 (bit 5) is set
\* after reset and after RTI and clear after PLP.
C26_BreakAlwaysClear ==
    /\ ~FlagSet(register_p, BREAK)
    /\ (last.valid /\ last.exit = "reset") => FlagSet(register_p, BREAK2)
    /\ (Executed /\ last.code = \h40) => FlagSet(register_p, BREAK2)
    /\ (Executed /\ last.code = \h28) => ~FlagSet(register_p, BREAK2)

\* C26, witnesses: PLP and RTI popped 0xFF; P is 0xCF after the PLP and
\* 0xEF after the RTI.
C26_Witness ==
    /\ Executed
    /\ last.code = \h28
    /\ StackByte(last.cpu, 1) = \hFF
    /\ last.cpu.p = \h24
    /\ register_p = \hCF

C26_WitnessRti ==
    /\ Executed
    /\ last.code = \h40
    /\ StackByte(last.cpu, 1) = \hFF
    /\ register_p = \hEF

C26_WitnessReset ==
    /\ last.valid
    /\ last.exit = "reset"
    /\ last.cpu.p = \hCF
    /\ register_p = \h24
====
